---- MODULE Spec2Model ----
(***************************************************************************)
(* Schedule-impact analysis engine of pm-chat-assist: the calendar helpers *)
(* of backend/date_utils.py, the data classes of backend/models.py, the    *)
(* analysis modes of backend/analyzer.py and the ingestion of              *)
(* backend/data_loader.py, as a state machine whose state is the session's *)
(* task list, the call in progress and its outcome.                        *)
(*                                                                         *)
(* Spec is a session of analysis calls on a task list, SessionSpec such a  *)
(* session in which the outcome of an earlier call is kept, OracleSpec the *)
(* calls of DateUtils, LoaderSpec the calls of DataLoader, ResolverSpec    *)
(* the questions put to llm/query_processor.py and UISpec a session of the *)
(* Streamlit application frontend/app.py.                                  *)
(*                                                                         *)
(* A datetime is a record of its fields (see the section datetime), with  *)
(* dates counted from 2026-07-02 (a Thursday).                             *)
(* An Optional value is the empty sequence (None) or a one-element         *)
(* sequence.  A str is the sequence of its characters; a formatted string  *)
(* is the sequence of its fixed and its interpolated parts;                *)
(* strftime('%Y-%m-%d') keeps the calendar date only.                      *)
(***************************************************************************)
EXTENDS Integers, Sequences, FiniteSets, TLC

VARIABLES
    tasks,      \* the session's task list
    call,       \* the call in progress, with its arguments
    response,   \* the outcome of the call in progress
    earlier,    \* an earlier call of the session and the outcome it had
    session_state   \* the other keys of st.session_state, and the widgets

vars == <<tasks, call, response, earlier, session_state>>

-----------------------------------------------------------------------------
(* Bounds of the model *)

\* calendar dates 0 .. NumDays-1, date 0 being Thursday 2026-07-02
NumDays == 4

\* longest task list of a session
MaxTasks == 2

\* times of day (hours) a datetime of the sessions of analysis calls carries:
\* midnight and noon
TimesOfDay == {0, 12}

-----------------------------------------------------------------------------
(* calendar *)

None == <<>>

Some(x) == <<x>>

\* the value of an expression that is evaluated once: the element of a set
\* of one element
the(S) == CHOOSE x \in S : TRUE

\* calendar.mdays: the days of the months of a year that is not a leap year
days_in_month == <<31, 28, 31, 30, 31, 30, 31, 31, 30, 31, 30, 31>>

\* calendar.isleap
isleap(year) == year % 4 = 0 /\ (year % 100 # 0 \/ year % 400 = 0)

\* calendar.monthrange(year, month)[1]
monthrange(year, month) ==
    IF month = 2 /\ isleap(year) THEN 29 ELSE days_in_month[month]

\* the days of the year before the month
RECURSIVE days_before_month(_, _)
days_before_month(year, month) ==
    IF month = 1
    THEN 0
    ELSE days_before_month(year, month - 1) + monthrange(year, month - 1)

\* date(year, month, day).toordinal()
toordinal(year, month, day) ==
    365 * (year - 1) + (year - 1) \div 4 - (year - 1) \div 100
    + (year - 1) \div 400 + days_before_month(year, month) + day

\* date.fromordinal(n): the year of the n-th day, and its number in that
\* year from 0; a cycle of 400 years has 146097 days, one of 100 years
\* 36524, one of 4 years 1461
year_of_ordinal(n) ==
    LET n400 == (n - 1) \div 146097
        r400 == (n - 1) % 146097
        n100 == r400 \div 36524
        r100 == r400 % 36524
        n4 == r100 \div 1461
        r4 == r100 % 1461
        n1 == r4 \div 365
        year == n400 * 400 + n100 * 100 + n4 * 4 + n1 + 1
    IN  IF n1 = 4 \/ n100 = 4
        THEN [year |-> year - 1, yday |-> 365]
        ELSE [year |-> year, yday |-> r4 % 365]

\* date.fromordinal(n)
fromordinal(n) ==
    LET year == year_of_ordinal(n).year
        yday == year_of_ordinal(n).yday
        month == CHOOSE m \in DOMAIN days_in_month :
                     yday - days_before_month(year, m) \in 0 .. (monthrange(year, m) - 1)
    IN  [year |-> year, month |-> month,
         day |-> yday - days_before_month(year, month) + 1]

-----------------------------------------------------------------------------
(* datetime *)

\* timedelta(days=1), in hours
HoursPerDay == 24

\* the year of today
CurrentYear == 2026

\* the calendar date the model counts from
Epoch == [iso |-> "2026-07-02", weekday |-> 3]

\* the month and the day of the month of Epoch
EpochDate == [month |-> 7, day |-> 2]

\* A tzinfo, as dateutil makes them: tz.tzlocal(), tz.UTC, or
\* tz.tzoffset(name, seconds).  utcoffset is the offset from UTC in seconds;
\* the local time zone of the machine is UTC.
tzlocal == [kind |-> "tzlocal", name |-> None, utcoffset |-> 0]

tzutc == [kind |-> "tzutc", name |-> None, utcoffset |-> 0]

tzoffset(name, seconds) == [kind |-> "tzoffset", name |-> name, utcoffset |-> seconds]

\* A datetime: hours are the whole hours from Epoch at 00:00 to its date and
\* hour, tzinfo is None for a naive datetime.
DatetimeRecord(hours, minute, second, microsecond, tzinfo) ==
    [hours |-> hours, minute |-> minute, second |-> second,
     microsecond |-> microsecond, tzinfo |-> tzinfo]

\* datetime(year, month, day, hour, minute, second, microsecond, tzinfo)
datetime(year, month, day, hour, minute, second, microsecond, tzinfo) ==
    DatetimeRecord((toordinal(year, month, day)
                    - toordinal(CurrentYear, EpochDate.month, EpochDate.day))
                   * HoursPerDay + hour,
                   minute, second, microsecond, tzinfo)

\* the naive datetime that many whole hours after Epoch at 00:00
Naive(hours) == DatetimeRecord(hours, 0, 0, 0, None)

\* pd.NaT, the datetime pandas makes of text that stands for no time; it is
\* an instance of datetime
NaT == [nat |-> TRUE]

Dates == 0 .. (NumDays - 1)

Datetimes == {Naive(d * HoursPerDay + h) : d \in Dates, h \in TimesOfDay}

\* datetime.date(), also what strftime('%Y-%m-%d') prints: the days from
\* Epoch to the date
DateOf(dt) == dt.hours \div HoursPerDay

\* the year, month and day of a datetime
date_of(dt) ==
    fromordinal(DateOf(dt) + toordinal(CurrentYear, EpochDate.month, EpochDate.day))

\* datetime.weekday(): Monday is 0, Sunday is 6
weekday(dt) == (DateOf(dt) + Epoch.weekday) % 7

\* dt + timedelta(days=1): the same time on the next day, in the same zone
PlusOneDay(dt) == [dt EXCEPT !.hours = @ + HoursPerDay]

\* What the comparison of two datetimes raises, None when it raises nothing.
\* A comparison with NaT raises nothing.  Datetimes of the same tzinfo are
\* compared field by field.  Otherwise each is asked for its utcoffset(),
\* which raises a ValueError when it is not strictly between -24 and 24
\* hours, and a naive datetime cannot be ordered with an aware one.
comparison_error(a, b) ==
    LET out_of_range(dt) ==
            /\ dt.tzinfo # None
            /\ \/ dt.tzinfo[1].utcoffset <= -(HoursPerDay * 3600)
               \/ dt.tzinfo[1].utcoffset >= HoursPerDay * 3600
    IN  IF a = NaT \/ b = NaT THEN None
        ELSE IF a.tzinfo = b.tzinfo THEN None
        ELSE IF out_of_range(a) \/ out_of_range(b) THEN Some("ValueError")
        ELSE IF a.tzinfo = None \/ b.tzinfo = None THEN Some("TypeError")
        ELSE None

\* the time in UTC a datetime stands for: whole hours, seconds of the hour
\* and microseconds
utc_key(dt) ==
    LET seconds == dt.minute * 60 + dt.second
                   - (IF dt.tzinfo = None THEN 0 ELSE dt.tzinfo[1].utcoffset)
    IN  <<dt.hours + (seconds \div 3600), seconds % 3600, dt.microsecond>>

\* a < b, for datetimes whose comparison does not raise; every ordering
\* comparison with NaT is False
lt(a, b) ==
    /\ a # NaT
    /\ b # NaT
    /\ LET x == utc_key(a)
           y == utc_key(b)
       IN  \/ x[1] < y[1]
           \/ x[1] = y[1] /\ x[2] < y[2]
           \/ x[1] = y[1] /\ x[2] = y[2] /\ x[3] < y[3]

\* a <= b
le(a, b) == a # NaT /\ b # NaT /\ ~lt(b, a)

-----------------------------------------------------------------------------
(* DateUtils *)

\* the day of the month of the n-th day of the week weekday (Monday is 0)
\* of a month, and of the last one
nth_weekday(year, month, wd, n) ==
    1 + ((wd - (toordinal(year, month, 1) + 6)) % 7) + 7 * (n - 1)

last_weekday(year, month, wd) ==
    monthrange(year, month)
    - (((toordinal(year, month, monthrange(year, month)) + 6) - wd) % 7)

\* a holiday on a fixed date is also observed on the Friday before when it
\* falls on a Saturday and on the Monday after when it falls on a Sunday;
\* what this gives a date of the year: the name, the name with
\* " (observed)", or nothing
fixed_holiday(date, month, day, name) ==
    LET ordinal == toordinal(date.year, date.month, date.day)
        yearday(year) == toordinal(year, month, day)
        year == IF date.month = 12 /\ month = 1 THEN date.year + 1 ELSE date.year
    IN  IF date.month = month /\ date.day = day
        THEN <<name>>
        ELSE IF \/ ordinal = yearday(year) - 1 /\ (ordinal + 6) % 7 = 4
                \/ ordinal = yearday(year) + 1 /\ (ordinal + 6) % 7 = 0
        THEN <<name \o " (observed)">>
        ELSE <<>>

\* a holiday on the n-th day of the week weekday of a month
nth_weekday_holiday(date, month, wd, n, name) ==
    IF date.month = month /\ date.day = nth_weekday(date.year, month, wd, n)
    THEN <<name>>
    ELSE <<>>

\* holidays.US(): the names of the federal holidays that fall on a date, by
\* the rules in force for the years from 2021 on
us_holidays(date) ==
    fixed_holiday(date, 1, 1, "New Year's Day")
    \o nth_weekday_holiday(date, 1, 0, 3, "Martin Luther King Jr. Day")
    \o nth_weekday_holiday(date, 2, 0, 3, "Washington's Birthday")
    \o (IF date.month = 5 /\ date.day = last_weekday(date.year, 5, 0)
        THEN <<"Memorial Day">> ELSE <<>>)
    \o fixed_holiday(date, 6, 19, "Juneteenth National Independence Day")
    \o fixed_holiday(date, 7, 4, "Independence Day")
    \o nth_weekday_holiday(date, 9, 0, 1, "Labor Day")
    \o nth_weekday_holiday(date, 10, 0, 2, "Columbus Day")
    \o fixed_holiday(date, 11, 11, "Veterans Day")
    \o nth_weekday_holiday(date, 11, 3, 4, "Thanksgiving Day")
    \o fixed_holiday(date, 12, 25, "Christmas Day")

\* date in self.us_holidays
is_holiday(date) == us_holidays(date_of(date)) # <<>>

\* the weekday index of Saturday
SATURDAY == 5

is_weekend(date) == weekday(date) >= SATURDAY

\* self.us_holidays.get(date, "")
get_holiday_name(date) ==
    IF is_holiday(date) THEN us_holidays(date_of(date))[1] ELSE ""
-----------------------------------------------------------------------------
(* models.py *)

\* outcome of a call: a returned value, or a raised exception
Returned(v) == [raised |-> FALSE, value |-> v]

Raised(e) == [raised |-> TRUE, value |-> e]

\* Task; the analysis reads id, start_date and end_date only
Task(id, start_date, end_date) ==
    [id |-> id, start_date |-> start_date, end_date |-> end_date]

\* TaskImpact.impact_type: Literal["holiday", "weekend"]
ImpactTypeLiteral == {"holiday", "weekend"}

\* TaskImpact(...): pydantic validates the fields and raises ValidationError
TaskImpact(task, impact_type, impact_description, delay_days) ==
    IF impact_type \in ImpactTypeLiteral
    THEN Returned([task |-> task,
                   impact_type |-> impact_type,
                   impact_description |-> impact_description,
                   delay_days |-> delay_days])
    ELSE Raised("ValidationError")

\* AnalysisResponse(...); total_project_delay defaults to None
AnalysisResponse(impacted_tasks, total_project_delay, analysis_summary) ==
    [impacted_tasks |-> impacted_tasks,
     total_project_delay |-> total_project_delay,
     analysis_summary |-> analysis_summary]

-----------------------------------------------------------------------------
(* ProjectAnalyzer.find_holiday_tasks *)

\* impact_description is "; ".join(impact_desc): the clauses, in order

\* a variant that looks at the start date only
holiday_flagged_start_only(start_holiday, end_holiday) == start_holiday

holiday_flagged(start_holiday, end_holiday) == start_holiday \/ end_holiday

\* a variant that charges a day for a holiday on either boundary
holiday_delay_days_either(start_holiday, end_holiday) ==
    IF start_holiday \/ end_holiday THEN 1 ELSE 0

holiday_delay_days(start_holiday, end_holiday) ==
    IF start_holiday THEN 1 ELSE 0

holiday_impact(task) ==
    LET start_holiday == is_holiday(task.start_date)
        end_holiday == is_holiday(task.end_date)
        start_desc ==
            IF start_holiday
            THEN << <<"Task starts on holiday: ",
                      get_holiday_name(task.start_date),
                      DateOf(task.start_date)>> >>
            ELSE <<>>
        end_desc ==
            IF end_holiday
            THEN << <<"Task ends on holiday: ",
                      get_holiday_name(task.end_date),
                      DateOf(task.end_date)>> >>
            ELSE <<>>
    IN  IF holiday_flagged(start_holiday, end_holiday)
        THEN Some(TaskImpact(task, "holiday", start_desc \o end_desc,
                             holiday_delay_days(start_holiday, end_holiday)))
        ELSE None

\* the for loop of a finder.  made[i] is what the loop body makes of the i-th
\* task: None when the task is not flagged, else the outcome of constructing
\* its TaskImpact; an exception leaves the loop and the function
RECURSIVE collect_impacts(_, _, _)
collect_impacts(made, i, impacted_tasks) ==
    IF i > Len(made)
    THEN Returned(impacted_tasks)
    ELSE IF made[i] = None
    THEN collect_impacts(made, i + 1, impacted_tasks)
    ELSE IF made[i][1].raised
    THEN made[i][1]
    ELSE collect_impacts(made, i + 1,
                         Append(impacted_tasks, made[i][1].value))

find_holiday_tasks(task_list) ==
    collect_impacts([i \in 1 .. Len(task_list) |-> holiday_impact(task_list[i])],
                    1, <<>>)

-----------------------------------------------------------------------------
(* ProjectAnalyzer.find_weekend_tasks *)

weekend_flagged(start_weekend, end_weekend) == start_weekend \/ end_weekend

\* a variant that takes index 6 for the first weekend day
weekend_delay_days_sunday_first(start_weekend, start_date) ==
    IF start_weekend /\ weekday(start_date) = 6 THEN 2
    ELSE IF start_weekend THEN 1
    ELSE 0

weekend_delay_days(start_weekend, start_date) ==
    IF start_weekend /\ weekday(start_date) = SATURDAY THEN 2
    ELSE IF start_weekend THEN 1
    ELSE 0

weekend_impact(task) ==
    LET start_weekend == is_weekend(task.start_date)
        end_weekend == is_weekend(task.end_date)
        start_desc ==
            IF start_weekend
            THEN << <<"Task starts on weekend", DateOf(task.start_date)>> >>
            ELSE <<>>
        end_desc ==
            IF end_weekend
            THEN << <<"Task ends on weekend", DateOf(task.end_date)>> >>
            ELSE <<>>
    IN  IF weekend_flagged(start_weekend, end_weekend)
        THEN Some(TaskImpact(task, "weekend", start_desc \o end_desc,
                             weekend_delay_days(start_weekend, task.start_date)))
        ELSE None

find_weekend_tasks(task_list) ==
    collect_impacts([i \in 1 .. Len(task_list) |-> weekend_impact(task_list[i])],
                    1, <<>>)

-----------------------------------------------------------------------------
(* ProjectAnalyzer.find_tasks_impacted_by_date *)

\* a variant that compares the calendar dates
date_in_task_by_calendar_date(task, target_date) ==
    /\ DateOf(task.start_date) <= DateOf(target_date)
    /\ DateOf(target_date) <= DateOf(task.end_date)

\* task.start_date <= target_date <= task.end_date
date_in_task(task, target_date) ==
    le(task.start_date, target_date) /\ le(target_date, task.end_date)

\* what the chained comparison raises, None when it raises nothing: the
\* second comparison is made only when the first one holds
date_in_task_error(task, target_date) ==
    IF comparison_error(task.start_date, target_date) # None
    THEN comparison_error(task.start_date, target_date)
    ELSE IF ~le(task.start_date, target_date)
    THEN None
    ELSE comparison_error(target_date, task.end_date)

date_impact_type(target_date) ==
    IF is_holiday(target_date) THEN "holiday"
    ELSE IF is_weekend(target_date) THEN "weekend"
    ELSE "general_query"

date_delay_days(target_date) ==
    IF is_holiday(target_date) \/ is_weekend(target_date) THEN 1 ELSE 0

date_impact_desc(target_date) ==
    <<"Task is active on ", DateOf(target_date)>> \o
    (IF is_holiday(target_date)
     THEN <<" which is a holiday: ", get_holiday_name(target_date)>>
     ELSE IF is_weekend(target_date)
     THEN <<" which is a weekend">>
     ELSE <<>>)

find_tasks_impacted_by_date(task_list, target_date) ==
    LET date_impact(task) ==
            IF date_in_task_error(task, target_date) # None
            THEN Some(Raised(date_in_task_error(task, target_date)[1]))
            ELSE IF date_in_task(task, target_date)
            THEN Some(TaskImpact(task, date_impact_type(target_date),
                                 date_impact_desc(target_date),
                                 date_delay_days(target_date)))
            ELSE None
    IN  collect_impacts([i \in 1 .. Len(task_list) |-> date_impact(task_list[i])],
                        1, <<>>)

-----------------------------------------------------------------------------
(* ProjectAnalyzer.calculate_weekend_impact *)

\* the while loop over the task's span: current_date runs from start_date in
\* steps of one day while current_date <= end_date
RECURSIVE count_weekend_days(_, _, _)
count_weekend_days(current_date, end_date, weekend_days) ==
    IF le(current_date, end_date)
    THEN count_weekend_days(PlusOneDay(current_date), end_date,
                            IF is_weekend(current_date)
                            THEN weekend_days + 1
                            ELSE weekend_days)
    ELSE weekend_days

\* a variant that adds the delays up
next_total_delay_sum(total_delay, weekend_days) == total_delay + weekend_days

\* total_delay = max(total_delay, weekend_days)
next_total_delay(total_delay, weekend_days) ==
    IF weekend_days > total_delay THEN weekend_days ELSE total_delay

\* key=lambda x: x.delay_days or 0
sort_key(x) == IF x.delay_days = 0 THEN 0 ELSE x.delay_days

\* a variant that is not stable: an element is placed before the elements
\* already placed that have its key
RECURSIVE insert_descending_unstable(_, _)
insert_descending_unstable(sorted, x) ==
    IF sorted = <<>> THEN <<x>>
    ELSE IF sort_key(Head(sorted)) > sort_key(x)
    THEN <<Head(sorted)>> \o insert_descending_unstable(Tail(sorted), x)
    ELSE <<x>> \o sorted

\* list.sort(key=..., reverse=True) is stable: an element is placed behind
\* every element already placed whose key is not smaller
RECURSIVE insert_descending(_, _)
insert_descending(sorted, x) ==
    IF sorted = <<>> THEN <<x>>
    ELSE IF sort_key(Head(sorted)) >= sort_key(x)
    THEN <<Head(sorted)>> \o insert_descending(Tail(sorted), x)
    ELSE <<x>> \o sorted

RECURSIVE sort_by_delay(_, _, _)
sort_by_delay(impacted_tasks, i, sorted) ==
    IF i > Len(impacted_tasks)
    THEN sorted
    ELSE sort_by_delay(impacted_tasks, i + 1,
                       insert_descending(sorted, impacted_tasks[i]))

RECURSIVE weekend_scan(_, _, _, _)
weekend_scan(task_list, i, impacted_tasks, total_delay) ==
    IF i > Len(task_list)
    THEN Returned([impacted_tasks |-> impacted_tasks,
                   total_delay |-> total_delay])
    ELSE LET task == task_list[i]
             weekend_days ==
                 count_weekend_days(task.start_date, task.end_date, 0)
             impact ==
                 TaskImpact(task, "weekend",
                            <<"Task spans ", weekend_days, " weekend days">>,
                            weekend_days)
         IN  IF comparison_error(task.start_date, task.end_date) # None
             THEN Raised(comparison_error(task.start_date, task.end_date)[1])
             ELSE IF weekend_days > 0
             THEN IF impact.raised
                  THEN impact
                  ELSE weekend_scan(task_list, i + 1,
                                    Append(impacted_tasks, impact.value),
                                    next_total_delay(total_delay, weekend_days))
             ELSE weekend_scan(task_list, i + 1, impacted_tasks, total_delay)

\* a variant in which the sort of line 161 is applied to the list that was
\* passed in: tasks.sort(key=weekend days of the span, reverse=True)
task_list_after_weekend_impact_sorted(task_list) ==
    LET key(i) == IF comparison_error(task_list[i].start_date,
                                      task_list[i].end_date) # None
                  THEN 0
                  ELSE count_weekend_days(task_list[i].start_date,
                                          task_list[i].end_date, 0)
        rank(i) == 1 + Cardinality({j \in DOMAIN task_list :
                                       \/ key(j) > key(i)
                                       \/ key(j) = key(i) /\ j < i})
    IN  [p \in DOMAIN task_list |->
            task_list[CHOOSE i \in DOMAIN task_list : rank(i) = p]]

\* the list that was passed in, after the call: the loop reads it, the
\* findings go to the fresh list impacted_tasks and the sort is applied to
\* that list
task_list_after_weekend_impact(task_list) == task_list

calculate_weekend_impact(task_list) ==
    LET scan == weekend_scan(task_list, 1, <<>>, 0)
    IN  IF scan.raised
        THEN scan
        ELSE Returned(AnalysisResponse(
                 sort_by_delay(scan.value.impacted_tasks, 1, <<>>),
                 Some(scan.value.total_delay),
                 <<"Project would be delayed by approximately ",
                   scan.value.total_delay,
                   " days if no weekend work is allowed.">>))

-----------------------------------------------------------------------------
(* ProjectAnalyzer.analyze_query *)

\* a variant that reports a total of 0
invalid_query_response_zero_total ==
    AnalysisResponse(<<>>, Some(0),
                     <<"Invalid query type or missing required parameters">>)

\* the else branch: no findings, no total, a fixed summary
invalid_query_response ==
    AnalysisResponse(<<>>, None,
                     <<"Invalid query type or missing required parameters">>)

analyze_query(query_type, task_list, specific_date) ==
    IF query_type = "holiday_impact"
    THEN LET impacted_tasks == find_holiday_tasks(task_list)
         IN  IF impacted_tasks.raised
             THEN impacted_tasks
             ELSE Returned(AnalysisResponse(
                      impacted_tasks.value, None,
                      <<"Found ", Len(impacted_tasks.value),
                        " tasks impacted by holidays">>))
    ELSE IF query_type = "weekend_impact"
    THEN calculate_weekend_impact(task_list)
    ELSE IF query_type = "specific_date" /\ specific_date # None
    THEN LET impacted_tasks ==
                 find_tasks_impacted_by_date(task_list, specific_date[1])
         IN  IF impacted_tasks.raised
             THEN impacted_tasks
             ELSE Returned(AnalysisResponse(
                      impacted_tasks.value, None,
                      <<"Found ", Len(impacted_tasks.value),
                        " tasks impacted by date ", DateOf(specific_date[1])>>))
    ELSE Returned(invalid_query_response)

-----------------------------------------------------------------------------
(* The session: a task list and the analysis calls made on it *)

\* the selectors a caller may pass: the three of the dispatch contract, the
\* intent resolver's general_query, and the empty string
QueryTypes ==
    {"holiday_impact", "weekend_impact", "specific_date", "general_query", ""}

OptionalDatetimes == {None} \cup {Some(dt) : dt \in Datetimes}

\* the arguments of the calls of analyze_query: every optional date with the
\* selector that reads it, no date or the first one with a selector that
\* does not
QueryArguments ==
    {qd \in QueryTypes \X OptionalDatetimes :
        qd[1] = "specific_date" \/ qd[2] \in {None, Some(Naive(0))}}

\* the spans a Task Record may have: end_date >= start_date
Spans == {se \in Datetimes \X Datetimes : le(se[1], se[2])}

\* a task list as ingestion yields it: the id of a task is its row's Index
TaskList(spans) ==
    [i \in DOMAIN spans |-> Task(i, spans[i][1], spans[i][2])]

\* no analysis call is in progress
NoCall == [op |-> "none", query_type |-> "", specific_date |-> None]

NoResponse == Returned(<<>>)

\* init_session_state: no data loaded, no DataLoader, an empty chat history.
\* Of the widgets: uploaded_file is the file in the uploader, None until one
\* is put there, query the text of the question box, empty until something
\* is entered, and page tells which of the widgets main() creates on its
\* way are on the page: the button "Load Data", the question box, and the
\* follow-up buttons of the first follow_up_buttons chat entries.
InitialSessionState ==
    [data_loaded |-> FALSE, data_loader |-> None, chat_history |-> <<>>,
     uploaded_file |-> None, query |-> <<>>,
     page |-> [load_data_button |-> FALSE, question_box |-> FALSE,
               follow_up_buttons |-> 0]]

Init ==
    /\ \E n \in 0 .. MaxTasks :
           \E spans \in [1 .. n -> Spans] : tasks = TaskList(spans)
    /\ call = NoCall
    /\ response = NoResponse
    /\ earlier = None
    /\ session_state = InitialSessionState

\* Calls are synchronous and single-threaded: a call starts when none is in
\* progress, runs to completion in one step and leaves its outcome in
\* response until the caller has taken it.

AnalyzeQuery ==
    /\ call = NoCall
    /\ \E qd \in QueryArguments :
        /\ call' = [op |-> "analyze_query", query_type |-> qd[1],
                    specific_date |-> qd[2]]
        /\ response' = analyze_query(qd[1], tasks, qd[2])
        /\ tasks' = IF qd[1] = "weekend_impact"
                    THEN task_list_after_weekend_impact(tasks)
                    ELSE tasks
    /\ UNCHANGED <<earlier, session_state>>

FindHolidayTasks ==
    /\ call = NoCall
    /\ call' = [op |-> "find_holiday_tasks", query_type |-> "",
                specific_date |-> None]
    /\ response' = find_holiday_tasks(tasks)
    /\ UNCHANGED <<tasks, earlier, session_state>>

FindWeekendTasks ==
    /\ call = NoCall
    /\ call' = [op |-> "find_weekend_tasks", query_type |-> "",
                specific_date |-> None]
    /\ response' = find_weekend_tasks(tasks)
    /\ UNCHANGED <<tasks, earlier, session_state>>

FindTasksImpactedByDate ==
    /\ call = NoCall
    /\ \E target_date \in Datetimes :
        /\ call' = [op |-> "find_tasks_impacted_by_date", query_type |-> "",
                    specific_date |-> Some(target_date)]
        /\ response' = find_tasks_impacted_by_date(tasks, target_date)
    /\ UNCHANGED <<tasks, earlier, session_state>>

CalculateWeekendImpact ==
    /\ call = NoCall
    /\ call' = [op |-> "calculate_weekend_impact", query_type |-> "",
                specific_date |-> None]
    /\ response' = calculate_weekend_impact(tasks)
    /\ tasks' = task_list_after_weekend_impact(tasks)
    /\ UNCHANGED <<earlier, session_state>>

\* the caller takes the outcome (the result, or the exception) and the
\* session is ready for the next call
TakeOutcome ==
    /\ call # NoCall
    /\ call' = NoCall
    /\ response' = NoResponse
    /\ UNCHANGED <<tasks, earlier, session_state>>

Next ==
    \/ AnalyzeQuery
    \/ FindHolidayTasks
    \/ FindWeekendTasks
    \/ FindTasksImpactedByDate
    \/ CalculateWeekendImpact
    \/ TakeOutcome

Spec == Init /\ [][Next]_vars

-----------------------------------------------------------------------------
(* A session in which a call is repeated *)

\* the spans of Task Records at date granularity
DateSpans ==
    {se \in Spans : se[1].hours % HoursPerDay = 0 /\ se[2].hours % HoursPerDay = 0}

SessionInit ==
    /\ \E n \in 0 .. MaxTasks :
           \E spans \in [1 .. n -> DateSpans] : tasks = TaskList(spans)
    /\ call = NoCall
    /\ response = NoResponse
    /\ earlier = None
    /\ session_state = InitialSessionState

\* the caller takes the outcome and keeps it, with the call that had it, to
\* compare it with the outcome of a later call
KeepOutcome ==
    /\ call # NoCall
    /\ earlier = None
    /\ earlier' = Some([call |-> call, response |-> response])
    /\ call' = NoCall
    /\ response' = NoResponse
    /\ UNCHANGED <<tasks, session_state>>

SessionNext ==
    \/ AnalyzeQuery
    \/ FindHolidayTasks
    \/ FindWeekendTasks
    \/ FindTasksImpactedByDate
    \/ CalculateWeekendImpact
    \/ TakeOutcome
    \/ KeepOutcome

SessionSpec == SessionInit /\ [][SessionNext]_vars

-----------------------------------------------------------------------------
(* DateUtils: the scans over dates *)

\* the calendars a DateUtils may hold in us_holidays: the one of
\* holidays.US(), and a malformed one in which every date is a holiday
Calendars == {"US", "every date a holiday"}

\* date in self.us_holidays
is_holiday_in(calendar, date) ==
    IF calendar = "US" THEN is_holiday(date) ELSE TRUE

\* a variant of the loop condition that tests the weekend only
scan_continues_weekend_only(calendar, next_day) == is_weekend(next_day)

\* the condition of the while loop of get_next_business_day
scan_continues(calendar, next_day) ==
    is_holiday_in(calendar, next_day) \/ is_weekend(next_day)

\* calculate_business_days: the while loop, current_date from start_date in
\* steps of one day while current_date <= end_date
RECURSIVE count_business_days(_, _, _)
count_business_days(current_date, end_date, business_days) ==
    IF le(current_date, end_date)
    THEN count_business_days(
             PlusOneDay(current_date), end_date,
             IF ~(is_holiday(current_date) \/ is_weekend(current_date))
             THEN business_days + 1
             ELSE business_days)
    ELSE business_days

\* the first comparison of the loop raises when the two datetimes cannot be
\* compared
calculate_business_days(start_date, end_date) ==
    IF comparison_error(start_date, end_date) # None
    THEN Raised(comparison_error(start_date, end_date)[1])
    ELSE Returned(count_business_days(start_date, end_date, 0))

\* a variant of the loop of find_impacted_dates that stops before end_date
RECURSIVE collect_impacted_dates_before_end(_, _, _)
collect_impacted_dates_before_end(current_date, end_date, impacted_dates) ==
    IF lt(current_date, end_date)
    THEN collect_impacted_dates_before_end(
             PlusOneDay(current_date), end_date,
             IF is_holiday(current_date)
             THEN Append(impacted_dates,
                         <<current_date,
                           <<"Holiday: ", get_holiday_name(current_date)>>>>)
             ELSE IF is_weekend(current_date)
             THEN Append(impacted_dates, <<current_date, <<"Weekend">>>>)
             ELSE impacted_dates)
    ELSE impacted_dates

\* find_impacted_dates: the while loop; an entry is the tuple (date, reason),
\* the holiday test comes first
RECURSIVE collect_impacted_dates(_, _, _)
collect_impacted_dates(current_date, end_date, impacted_dates) ==
    IF le(current_date, end_date)
    THEN collect_impacted_dates(
             PlusOneDay(current_date), end_date,
             IF is_holiday(current_date)
             THEN Append(impacted_dates,
                         <<current_date,
                           <<"Holiday: ", get_holiday_name(current_date)>>>>)
             ELSE IF is_weekend(current_date)
             THEN Append(impacted_dates, <<current_date, <<"Weekend">>>>)
             ELSE impacted_dates)
    ELSE impacted_dates

find_impacted_dates(start_date, end_date) ==
    IF comparison_error(start_date, end_date) # None
    THEN Raised(comparison_error(start_date, end_date)[1])
    ELSE Returned(collect_impacted_dates(start_date, end_date, <<>>))

-----------------------------------------------------------------------------
(* The calls of DateUtils *)

\* the dates DateUtils is asked about: 0 .. OracleDays-1, Thursday 2026-07-02
\* to Monday 2026-07-06
OracleDays == 5

\* the iterations of the loop of get_next_business_day the model follows
MaxIterations == 10

OracleDatetimes ==
    {Naive(d * HoursPerDay + h) : d \in 0 .. (OracleDays - 1), h \in TimesOfDay}

OracleInit ==
    /\ tasks = <<>>
    /\ call = NoCall
    /\ response = NoResponse
    /\ earlier = None
    /\ session_state = InitialSessionState

\* get_next_business_day is followed statement by statement: call holds its
\* argument, its local next_day and the number of iterations made so far.
\* What a call returns is recorded under the name of the variable its return
\* statement names.

\* next_day = date + timedelta(days=1)
GetNextBusinessDay ==
    /\ call = NoCall
    /\ \E calendar \in Calendars, date \in OracleDatetimes :
           call' = [op |-> "get_next_business_day", pc |-> "while",
                    calendar |-> calendar, date |-> date,
                    next_day |-> PlusOneDay(date), iterations |-> 0]
    /\ UNCHANGED <<tasks, response, earlier, session_state>>

\* the loop body: next_day += timedelta(days=1)
NextDay ==
    /\ call.op = "get_next_business_day"
    /\ call.pc = "while"
    /\ scan_continues(call.calendar, call.next_day)
    /\ call.iterations < MaxIterations
    /\ call' = [call EXCEPT !.next_day = PlusOneDay(@),
                            !.iterations = @ + 1]
    /\ UNCHANGED <<tasks, response, earlier, session_state>>

\* the loop condition is false: return next_day
ReturnNextDay ==
    /\ call.op = "get_next_business_day"
    /\ call.pc = "while"
    /\ ~scan_continues(call.calendar, call.next_day)
    /\ call' = [call EXCEPT !.pc = "return"]
    /\ response' = Returned([next_day |-> call.next_day])
    /\ UNCHANGED <<tasks, earlier, session_state>>

CalculateBusinessDays ==
    /\ call = NoCall
    /\ \E start_date \in OracleDatetimes, end_date \in OracleDatetimes :
        /\ call' = [op |-> "calculate_business_days", pc |-> "return",
                    start_date |-> start_date, end_date |-> end_date]
        /\ response' =
               LET business_days == calculate_business_days(start_date, end_date)
               IN  IF business_days.raised
                   THEN business_days
                   ELSE Returned([business_days |-> business_days.value])
    /\ UNCHANGED <<tasks, earlier, session_state>>

FindImpactedDates ==
    /\ call = NoCall
    /\ \E start_date \in OracleDatetimes, end_date \in OracleDatetimes :
        /\ call' = [op |-> "find_impacted_dates", pc |-> "return",
                    start_date |-> start_date, end_date |-> end_date]
        /\ response' =
               LET impacted_dates == find_impacted_dates(start_date, end_date)
               IN  IF impacted_dates.raised
                   THEN impacted_dates
                   ELSE Returned([impacted_dates |-> impacted_dates.value])
    /\ UNCHANGED <<tasks, earlier, session_state>>

\* the caller takes what the call returned
TakeReturnValue ==
    /\ call.op \in {"get_next_business_day", "calculate_business_days",
                    "find_impacted_dates"}
    /\ call.pc = "return"
    /\ call' = NoCall
    /\ response' = NoResponse
    /\ UNCHANGED <<tasks, earlier, session_state>>

OracleNext ==
    \/ GetNextBusinessDay
    \/ NextDay
    \/ ReturnNextDay
    \/ CalculateBusinessDays
    \/ FindImpactedDates
    \/ TakeReturnValue

OracleSpec == OracleInit /\ [][OracleNext]_vars

-----------------------------------------------------------------------------
(* QueryProcessor: text and patterns *)

\* A str is the sequence of its characters.
UpperCase ==
    <<"A", "B", "C", "D", "E", "F", "G", "H", "I", "J", "K", "L", "M",
      "N", "O", "P", "Q", "R", "S", "T", "U", "V", "W", "X", "Y", "Z">>

LowerCase ==
    <<"a", "b", "c", "d", "e", "f", "g", "h", "i", "j", "k", "l", "m",
      "n", "o", "p", "q", "r", "s", "t", "u", "v", "w", "x", "y", "z">>

DigitChars == <<"0", "1", "2", "3", "4", "5", "6", "7", "8", "9">>

Range(seq) == {seq[i] : i \in DOMAIN seq}

\* str.lower() on one character
lower_char(c) ==
    IF \E i \in DOMAIN UpperCase : UpperCase[i] = c
    THEN LowerCase[CHOOSE i \in DOMAIN UpperCase : UpperCase[i] = c]
    ELSE c

\* _preprocess_query: query.lower()
preprocess_query(query) == [i \in DOMAIN query |-> lower_char(query[i])]

\* keyword in query
keyword_in(keyword, query) ==
    \E i \in 1 .. (Len(query) - Len(keyword) + 1) :
        SubSeq(query, i, i + Len(keyword) - 1) = keyword

holiday_keywords ==
    <<<<"h", "o", "l", "i", "d", "a", "y">>,
      <<"f", "e", "d", "e", "r", "a", "l", " ", "h", "o", "l", "i", "d", "a", "y">>,
      <<"n", "a", "t", "i", "o", "n", "a", "l", " ", "h", "o", "l", "i", "d", "a", "y">>>>

weekend_keywords ==
    <<<<"w", "e", "e", "k", "e", "n", "d">>,
      <<"s", "a", "t", "u", "r", "d", "a", "y">>,
      <<"s", "u", "n", "d", "a", "y">>>>

\* any(keyword in query for keyword in holiday_keywords)
is_holiday_query(query) ==
    \E k \in DOMAIN holiday_keywords : keyword_in(holiday_keywords[k], query)

\* any(keyword in query for keyword in weekend_keywords)
is_weekend_query(query) ==
    \E k \in DOMAIN weekend_keywords : keyword_in(weekend_keywords[k], query)

\* Regular expressions.  A pattern is a sequence of items: \b, one of a set
\* of literal texts, or a character class repeated min to max times
\* ("class+": min times or more).
WordBoundary == [kind |-> "\\b", alts |-> {}, chars |-> {}, min |-> 0, max |-> 0]

Literal(alts) == [kind |-> "literal", alts |-> alts, chars |-> {}, min |-> 0, max |-> 0]

Class(chars, min, max) ==
    [kind |-> "class", alts |-> {}, chars |-> chars, min |-> min, max |-> max]

\* \w
word_chars == Range(UpperCase) \cup Range(LowerCase) \cup Range(DigitChars) \cup {"_"}

\* \d
digit_chars == Range(DigitChars)

\* \s, str.isspace() and the separators of str.split(): of the characters
\* of ASCII the space, \t, \n, \x0b, \x0c, \r, \x1c, \x1d, \x1e and \x1f
space_chars ==
    {" ", "\t", "\n", "", "\f", "\r", "", "", "", ""}

\* \b holds at position p, between text[p - 1] and text[p]
at_word_boundary(text, p) ==
    LET before == p > 1 /\ text[p - 1] \in word_chars
        after  == p <= Len(text) /\ text[p] \in word_chars
    IN  before # after

\* the positions at which a match of the item that starts at p can end
match_item(item, text, p) ==
    CASE item.kind = "\\b" ->
            IF at_word_boundary(text, p) THEN {p} ELSE {}
      [] item.kind = "literal" ->
            {p + Len(a) : a \in {b \in item.alts :
                /\ p + Len(b) - 1 <= Len(text)
                /\ SubSeq(text, p, p + Len(b) - 1) = b}}
      [] item.kind \in {"class", "class+"} ->
            LET max == IF item.kind = "class+" THEN Len(text) ELSE item.max
            IN  {p + n : n \in {m \in item.min .. max :
                    /\ p + m - 1 <= Len(text)
                    /\ \A j \in p .. (p + m - 1) : text[j] \in item.chars}}

RECURSIVE match_from(_, _, _, _)
\* the positions at which a match of items k.. that starts at one of the
\* positions can end
match_from(pattern, k, text, positions) ==
    IF k > Len(pattern) \/ positions = {}
    THEN positions
    ELSE match_from(pattern, k + 1, text,
                    UNION {match_item(pattern[k], text, p) : p \in positions})

\* re.search(pattern, text, re.IGNORECASE) is not None; the patterns are
\* written in lower case
re_search(pattern, text) ==
    match_from(pattern, 1, preprocess_query(text), 1 .. (Len(text) + 1)) # {}

month_names ==
    <<<<"j", "a", "n", "u", "a", "r", "y">>,
      <<"f", "e", "b", "r", "u", "a", "r", "y">>,
      <<"m", "a", "r", "c", "h">>,
      <<"a", "p", "r", "i", "l">>,
      <<"m", "a", "y">>,
      <<"j", "u", "n", "e">>,
      <<"j", "u", "l", "y">>,
      <<"a", "u", "g", "u", "s", "t">>,
      <<"s", "e", "p", "t", "e", "m", "b", "e", "r">>,
      <<"o", "c", "t", "o", "b", "e", "r">>,
      <<"n", "o", "v", "e", "m", "b", "e", "r">>,
      <<"d", "e", "c", "e", "m", "b", "e", "r">>>>

\* (st|nd|rd|th)?
ordinal_suffix == Literal({<<>>, <<"s", "t">>, <<"n", "d">>, <<"r", "d">>, <<"t", "h">>})

\* \s+
spaces == [kind |-> "class+", alts |-> {}, chars |-> space_chars, min |-> 1, max |-> 0]

\* r'\bjuly\s+4th\b'
july_4th_pattern ==
    <<WordBoundary, Literal({<<"j", "u", "l", "y">>}), spaces, Literal({<<"4", "t", "h">>}), WordBoundary>>

\* the date_patterns of _is_specific_date_query, in their order; a pattern
\* with an optional group is written as its two alternatives
date_patterns ==
    << <<WordBoundary, Class(digit_chars, 1, 2), Literal({<<"/">>}),
         Class(digit_chars, 1, 2), WordBoundary>>,
       <<WordBoundary, Class(digit_chars, 1, 2), Literal({<<"/">>}),
         Class(digit_chars, 1, 2), Literal({<<"/">>}), Class(digit_chars, 2, 4),
         WordBoundary>>,
       <<WordBoundary, Literal(Range(month_names)), spaces,
         Class(digit_chars, 1, 2), ordinal_suffix, WordBoundary>>,
       <<WordBoundary, Literal(Range(month_names)), spaces,
         Class(digit_chars, 1, 2), ordinal_suffix, Literal({<<",">>}), spaces,
         Class(digit_chars, 4, 4), WordBoundary>>,
       july_4th_pattern,
       <<WordBoundary, Literal({<<"n", "e", "w">>}), spaces, Literal({<<"y", "e", "a", "r">>}), WordBoundary>>,
       <<WordBoundary, Literal({<<"c", "h", "r", "i", "s", "t", "m", "a", "s">>}), WordBoundary>>,
       <<WordBoundary, Literal({<<"t", "h", "a", "n", "k", "s", "g", "i", "v", "i", "n", "g">>}), WordBoundary>>,
       <<WordBoundary, Literal({<<"m", "e", "m", "o", "r", "i", "a", "l">>}), spaces, Literal({<<"d", "a", "y">>}), WordBoundary>>,
       <<WordBoundary, Literal({<<"l", "a", "b", "o", "r">>}), spaces, Literal({<<"d", "a", "y">>}), WordBoundary>>,
       <<WordBoundary, Literal({<<"i", "n", "d", "e", "p", "e", "n", "d", "e", "n", "c", "e">>}), spaces, Literal({<<"d", "a", "y">>}), WordBoundary>>,
       <<WordBoundary, Literal({<<"v", "e", "t", "e", "r", "a", "n", "s">>}), spaces, Literal({<<"d", "a", "y">>}), WordBoundary>>,
       <<WordBoundary, Literal({<<"m", "l", "k">>}), spaces, Literal({<<"d", "a", "y">>}), WordBoundary>>,
       <<WordBoundary, Literal({<<"m", "a", "r", "t", "i", "n">>}), spaces, Literal({<<"l", "u", "t", "h", "e", "r">>}), spaces,
         Literal({<<"k", "i", "n", "g">>}), WordBoundary>> >>

\* any(re.search(pattern, query, re.IGNORECASE) for pattern in date_patterns)
is_specific_date_query(query) ==
    \E k \in DOMAIN date_patterns : re_search(date_patterns[k], query)

\* query.split()
RECURSIVE split(_, _, _)
split(text, i, word) ==
    IF i > Len(text)
    THEN IF word = <<>> THEN <<>> ELSE <<word>>
    ELSE IF text[i] \in space_chars
         THEN (IF word = <<>> THEN <<>> ELSE <<word>>) \o split(text, i + 1, <<>>)
         ELSE split(text, i + 1, Append(word, text[i]))

\* int() of a text of digits
RECURSIVE int_of_digits(_)
int_of_digits(digits) ==
    IF digits = <<>>
    THEN 0
    ELSE 10 * int_of_digits(SubSeq(digits, 1, Len(digits) - 1))
         + (CHOOSE i \in DOMAIN DigitChars : DigitChars[i] = digits[Len(digits)]) - 1

-----------------------------------------------------------------------------
(* dateutil.parser (release 2.9), which _extract_date hands each word of   *)
(* the question to with fuzzy=True and which reads a date cell written as  *)
(* text without fuzzy: the lexer _timelex, the tables of parserinfo, the   *)
(* token loop of parser._parse with _ymd, parserinfo.validate, and         *)
(* _build_naive and _build_tzaware on today at 00:00.  The year of today   *)
(* is CurrentYear; a run of digits has at most nine of them.               *)

\* name.lower()
lower(text) == [i \in DOMAIN text |-> lower_char(text[i])]

\* str.isalpha on one character
alpha_chars == Range(UpperCase) \cup Range(LowerCase)

\* text.isdigit()
isdigit(text) == text # <<>> /\ \A i \in DOMAIN text : text[i] \in digit_chars

\* text.count(c)
count(text, c) == Cardinality({i \in DOMAIN text : text[i] = c})

\* text[a:b]
slice(text, a, b) == SubSeq(text, a + 1, IF b < Len(text) THEN b ELSE Len(text))

\* int(text); None stands for the ValueError
int_of(text) == IF isdigit(text) THEN Some(int_of_digits(text)) ELSE None

\* _timelex: a token under way, the state of the lexer and the position of
\* the next character
Lexed(token, state, seenletters, next) ==
    [token |-> token, state |-> state, seenletters |-> seenletters, next |-> next]

\* _timelex.get_token after the first character of the token; a character
\* that is not part of the token is left for the next one
RECURSIVE timelex_scan(_, _, _, _, _)
timelex_scan(text, p, token, state, seenletters) ==
    IF p > Len(text)
    THEN Lexed(token, state, seenletters, p)
    ELSE LET nextchar == text[p]
             more(st, seen) == timelex_scan(text, p + 1, Append(token, nextchar), st, seen)
         IN  CASE state = "a" ->
                    IF nextchar \in alpha_chars THEN more("a", TRUE)
                    ELSE IF nextchar = "." THEN more("a.", TRUE)
                    ELSE Lexed(token, state, TRUE, p)
               [] state = "0" ->
                    IF nextchar \in digit_chars THEN more("0", seenletters)
                    ELSE IF nextchar = "." \/ (nextchar = "," /\ Len(token) >= 2)
                    THEN more("0.", seenletters)
                    ELSE Lexed(token, state, seenletters, p)
               [] state = "a." ->
                    IF nextchar = "." \/ nextchar \in alpha_chars THEN more("a.", TRUE)
                    ELSE IF nextchar \in digit_chars /\ token[Len(token)] = "."
                    THEN more("0.", TRUE)
                    ELSE Lexed(token, state, TRUE, p)
               [] state = "0." ->
                    IF nextchar = "." \/ nextchar \in digit_chars THEN more("0.", seenletters)
                    ELSE IF nextchar \in alpha_chars /\ token[Len(token)] = "."
                    THEN more("a.", seenletters)
                    ELSE Lexed(token, state, seenletters, p)

\* the first character of a token decides whether a word, a number or
\* something else is read
timelex_first(text, p) ==
    IF text[p] \in alpha_chars THEN timelex_scan(text, p + 1, <<text[p]>>, "a", FALSE)
    ELSE IF text[p] \in digit_chars THEN timelex_scan(text, p + 1, <<text[p]>>, "0", FALSE)
    ELSE IF text[p] \in space_chars THEN Lexed(<<" ">>, "", FALSE, p + 1)
    ELSE Lexed(<<text[p]>>, "", FALSE, p + 1)

\* _split_decimal.split(token), without the empty pieces
RECURSIVE split_decimal(_, _, _)
split_decimal(token, i, piece) ==
    IF i > Len(token)
    THEN IF piece = <<>> THEN <<>> ELSE <<piece>>
    ELSE IF token[i] \in {".", ","}
         THEN (IF piece = <<>> THEN <<>> ELSE <<piece>>) \o << <<token[i]>> >>
              \o split_decimal(token, i + 1, <<>>)
         ELSE split_decimal(token, i + 1, Append(piece, token[i]))

\* the end of get_token: a dotted token is broken up, or the comma of a
\* number becomes a decimal point
get_token(lexed) ==
    IF /\ lexed.state \in {"a.", "0."}
       /\ \/ lexed.seenletters
          \/ count(lexed.token, ".") > 1
          \/ lexed.token[Len(lexed.token)] \in {".", ","}
    THEN split_decimal(lexed.token, 1, <<>>)
    ELSE IF lexed.state = "0." /\ count(lexed.token, ".") = 0
    THEN <<[i \in DOMAIN lexed.token |->
               IF lexed.token[i] = "," THEN "." ELSE lexed.token[i]]>>
    ELSE <<lexed.token>>

\* _timelex.split(timestr), from position p
RECURSIVE timelex_split(_, _)
timelex_split(timestr, p) ==
    IF p > Len(timestr)
    THEN <<>>
    ELSE get_token(timelex_first(timestr, p))
         \o timelex_split(timestr, timelex_first(timestr, p).next)

\* parserinfo
JUMP ==
    {<<" ">>, <<".">>, <<",">>, <<";">>, <<"-">>, <<"/">>, <<"'">>, <<"a", "t">>, <<"o", "n">>, <<"a", "n", "d">>, <<"a", "d">>, <<"m">>, <<"t">>, <<"o", "f">>,
     <<"s", "t">>, <<"n", "d">>, <<"r", "d">>, <<"t", "h">>}

WEEKDAYS ==
    <<{<<"m", "o", "n">>, <<"m", "o", "n", "d", "a", "y">>}, {<<"t", "u", "e">>, <<"t", "u", "e", "s", "d", "a", "y">>}, {<<"w", "e", "d">>, <<"w", "e", "d", "n", "e", "s", "d", "a", "y">>},
      {<<"t", "h", "u">>, <<"t", "h", "u", "r", "s", "d", "a", "y">>}, {<<"f", "r", "i">>, <<"f", "r", "i", "d", "a", "y">>}, {<<"s", "a", "t">>, <<"s", "a", "t", "u", "r", "d", "a", "y">>},
      {<<"s", "u", "n">>, <<"s", "u", "n", "d", "a", "y">>}>>

MONTHS ==
    <<{<<"j", "a", "n">>, <<"j", "a", "n", "u", "a", "r", "y">>}, {<<"f", "e", "b">>, <<"f", "e", "b", "r", "u", "a", "r", "y">>}, {<<"m", "a", "r">>, <<"m", "a", "r", "c", "h">>},
      {<<"a", "p", "r">>, <<"a", "p", "r", "i", "l">>}, {<<"m", "a", "y">>}, {<<"j", "u", "n">>, <<"j", "u", "n", "e">>}, {<<"j", "u", "l">>, <<"j", "u", "l", "y">>},
      {<<"a", "u", "g">>, <<"a", "u", "g", "u", "s", "t">>}, {<<"s", "e", "p">>, <<"s", "e", "p", "t">>, <<"s", "e", "p", "t", "e", "m", "b", "e", "r">>}, {<<"o", "c", "t">>, <<"o", "c", "t", "o", "b", "e", "r">>},
      {<<"n", "o", "v">>, <<"n", "o", "v", "e", "m", "b", "e", "r">>}, {<<"d", "e", "c">>, <<"d", "e", "c", "e", "m", "b", "e", "r">>}>>

HMS ==
    <<{<<"h">>, <<"h", "o", "u", "r">>, <<"h", "o", "u", "r", "s">>}, {<<"m">>, <<"m", "i", "n", "u", "t", "e">>, <<"m", "i", "n", "u", "t", "e", "s">>},
      {<<"s">>, <<"s", "e", "c", "o", "n", "d">>, <<"s", "e", "c", "o", "n", "d", "s">>}>>

AMPM == <<{<<"a", "m">>, <<"a">>}, {<<"p", "m">>, <<"p">>}>>

UTCZONE == {<<"U", "T", "C">>, <<"G", "M", "T">>, <<"Z">>, <<"z">>}

PERTAIN == {<<"o", "f">>}

\* the index (from 0) of the entry of a table that has the name, or None
lookup(table, name) ==
    IF \E k \in DOMAIN table : lower(name) \in table[k]
    THEN Some((CHOOSE k \in DOMAIN table : lower(name) \in table[k]) - 1)
    ELSE None

info_jump(name) == lower(name) \in JUMP

info_weekday(name) == lookup(WEEKDAYS, name)

\* parserinfo.month: the number of the month, from 1
info_month(name) ==
    IF lookup(MONTHS, name) = None THEN None ELSE Some(lookup(MONTHS, name)[1] + 1)

info_hms(name) == lookup(HMS, name)

info_ampm(name) == lookup(AMPM, name)

info_pertain(name) == lower(name) \in PERTAIN

info_utczone(name) == lower(name) \in {lower(zone) : zone \in UTCZONE}

\* parserinfo.tzoffset: the name is looked up as it is written among the
\* lower-cased names of UTCZONE; TZOFFSET is empty
info_tzoffset(name) ==
    IF name \in {lower(zone) : zone \in UTCZONE} THEN Some(0) ELSE None

\* parserinfo.convertyear: a year of two digits is taken to lie within 50
\* years of the current one
convertyear(year, century_specified) ==
    IF year < 100 /\ ~century_specified
    THEN LET y == year + (CurrentYear \div 100) * 100
         IN  IF y >= CurrentYear + 50 THEN y - 100
             ELSE IF y < CurrentYear - 50 THEN y + 100
             ELSE y
    ELSE year

\* float(token) succeeds on the text of a number
is_number(token) ==
    /\ \E i \in DOMAIN token : token[i] \in digit_chars
    /\ \A i \in DOMAIN token : token[i] \in digit_chars \cup {"."}
    /\ count(token, ".") <= 1

\* float(token) succeeds: a number, or nan, inf, infinity, which _to_decimal
\* rejects
is_float(token) ==
    is_number(token) \/ lower(token) \in {<<"n", "a", "n">>, <<"i", "n", "f">>, <<"i", "n", "f", "i", "n", "i", "t", "y">>}

\* Decimal(token): the position of the decimal point, the whole part
\* (int(value)), the digits behind the point and whether value % 1 is not 0
point(token) ==
    IF count(token, ".") = 0
    THEN Len(token) + 1
    ELSE CHOOSE i \in DOMAIN token : token[i] = "."

whole(token) == int_of_digits(SubSeq(token, 1, point(token) - 1))

fraction(token) == SubSeq(token, point(token) + 1, Len(token))

has_fraction(token) == \E i \in DOMAIN fraction(token) : fraction(token)[i] # "0"

RECURSIVE power_of_ten(_)
power_of_ten(n) == IF n = 0 THEN 1 ELSE 10 * power_of_ten(n - 1)

\* int(60 * (value % 1))
sixty_times_fraction(token) ==
    (60 * int_of_digits(fraction(token))) \div power_of_ten(Len(fraction(token)))

\* the _result of the parser with the _ymd list.  mstridx and ystridx are
\* positions from 1, 0 for None; tzoffset is in seconds; failed says that a
\* ValueError or an IndexError was raised.
EmptyResult ==
    [ymd |-> <<>>, mstridx |-> 0, ystridx |-> 0, century_specified |-> FALSE,
     weekday |-> None, hour |-> None, minute |-> None, second |-> None,
     microsecond |-> None, ampm |-> None, tzname |-> None, tzoffset |-> None,
     failed |-> FALSE]

Fail(res) == [res EXCEPT !.failed = TRUE]

\* the position the parser is at, with the result so far
At(idx, res) == [idx |-> idx, res |-> res]

\* the end of _ymd.append: the value is appended and the label recorded
ymd_append(res, value, label) ==
    LET ymd == Append(res.ymd, value)
    IN  IF res.failed THEN res
        ELSE IF label = "M"
        THEN IF res.mstridx # 0 THEN Fail(res)
             ELSE [res EXCEPT !.ymd = ymd, !.mstridx = Len(ymd)]
        ELSE IF label = "Y"
        THEN IF res.ystridx # 0 THEN Fail(res)
             ELSE [res EXCEPT !.ymd = ymd, !.ystridx = Len(ymd)]
        ELSE [res EXCEPT !.ymd = ymd]

\* _ymd.append of a str: more than two digits are a year
append_str(res, val, label) ==
    LET century == isdigit(val) /\ Len(val) > 2
    IN  IF res.failed THEN res
        ELSE IF century /\ label \notin {"", "Y"} THEN Fail(res)
        ELSE IF int_of(val) = None THEN Fail(res)
        ELSE ymd_append([res EXCEPT !.century_specified = @ \/ century],
                        int_of(val)[1], IF century THEN "Y" ELSE label)

\* _ymd.append of the Decimal of a token: a value above 100 is a year
append_decimal(res, token) ==
    LET century == whole(token) > 100 \/ (whole(token) = 100 /\ has_fraction(token))
    IN  ymd_append([res EXCEPT !.century_specified = @ \/ century],
                   whole(token), IF century THEN "Y" ELSE "")

\* _ymd.could_be_day(Decimal(token))
could_be_day(res, token) ==
    LET last == IF res.mstridx = 0 THEN 31
                ELSE monthrange(IF res.ystridx = 0 THEN 2000 ELSE res.ymd[res.ystridx],
                                res.ymd[res.mstridx])
    IN  /\ whole(token) >= 1
        /\ \/ whole(token) < last
           \/ whole(token) = last /\ ~has_fraction(token)

\* What is assigned to hour, minute or second: the int of a text (None when
\* int raises), nothing (Keep), or None (Clear).
Keep == <<0, 0>>

Clear == <<0, 0, 0>>

assigned(new, old) ==
    IF Len(new) = 2 THEN old ELSE IF Len(new) = 3 THEN None ELSE new

assign_time(res, hour, minute, second) ==
    IF res.failed THEN res
    ELSE IF hour = None \/ minute = None \/ second = None THEN Fail(res)
    ELSE [res EXCEPT !.hour = assigned(hour, @),
                     !.minute = assigned(minute, @),
                     !.second = assigned(second, @)]

\* _parsems(value): the seconds and the microseconds of "I[.F]", None when
\* int or the unpacking of the split raises; the microseconds are the first
\* six digits of F, filled up with zeros
parsems(value) ==
    LET f == fraction(value)
        six == [k \in 1 .. 6 |-> IF k <= Len(f) THEN f[k] ELSE "0"]
    IN  IF count(value, ".") = 0
        THEN IF int_of(value) = None THEN None ELSE Some(<<int_of(value)[1], 0>>)
        ELSE IF count(value, ".") > 1 THEN None
        ELSE IF int_of(SubSeq(value, 1, point(value) - 1)) = None \/ int_of(six) = None
        THEN None
        ELSE Some(<<int_of(SubSeq(value, 1, point(value) - 1))[1], int_of(six)[1]>>)

\* res.second, res.microsecond = self._parsems(value)
assign_parsems(res, value) ==
    IF res.failed THEN res
    ELSE IF parsems(value) = None THEN Fail(res)
    ELSE [res EXCEPT !.second = Some(parsems(value)[1][1]),
                     !.microsecond = Some(parsems(value)[1][2])]

\* _parse_min_sec(Decimal(token))[1]
seconds_of_minute(token) ==
    IF has_fraction(token) THEN Some(sixty_times_fraction(token)) ELSE Clear

\* _adjust_ampm
adjust_ampm(hour, ampm) ==
    IF hour < 12 /\ ampm = 1 THEN hour + 12
    ELSE IF hour = 12 /\ ampm = 0 THEN 0
    ELSE hour

\* _ampm_valid: without fuzzy it raises a ValueError (None) when there is
\* no hour or the hour is not one of a 12-hour clock
ampm_valid(hour, ampm, fuzzy) ==
    IF hour = None \/ hour[1] < 0 \/ hour[1] > 12
    THEN IF fuzzy THEN Some(FALSE) ELSE None
    ELSE Some(~(fuzzy /\ ampm # None))

\* _could_be_tzname
could_be_tzname(hour, tzname, offset, token) ==
    /\ hour # None
    /\ tzname = None
    /\ offset = None
    /\ Len(token) <= 5
    /\ \/ \A i \in DOMAIN token : token[i] \in Range(UpperCase)
       \/ token \in UTCZONE

\* _find_hms_idx, with allow_jump
find_hms_idx(idx, tokens) ==
    IF idx + 1 <= Len(tokens) /\ info_hms(tokens[idx + 1]) # None
    THEN Some(idx + 1)
    ELSE IF /\ idx + 2 <= Len(tokens)
            /\ tokens[idx + 1] = <<" ">>
            /\ info_hms(tokens[idx + 2]) # None
    THEN Some(idx + 2)
    ELSE IF idx > 1 /\ info_hms(tokens[idx - 1]) # None
    THEN Some(idx - 1)
    ELSE IF /\ idx > 2
            /\ idx = Len(tokens)
            /\ tokens[idx - 1] = <<" ">>
            /\ info_hms(tokens[idx - 2]) # None
    THEN Some(idx - 2)
    ELSE None

\* _assign_hms; hms is 0, 1, 2 for hour, minute, second, and 3 for what
\* follows a second
assign_hms(res, value_repr, hms) ==
    CASE hms = 0 -> assign_time(res, Some(whole(value_repr)),
                                IF has_fraction(value_repr)
                                THEN Some(sixty_times_fraction(value_repr))
                                ELSE Keep,
                                Keep)
      [] hms = 1 -> assign_time(res, Keep, Some(whole(value_repr)),
                                seconds_of_minute(value_repr))
      [] hms = 2 -> assign_parsems(res, value_repr)
      [] OTHER -> res

\* _parse_hms and _assign_hms: the label follows the number, or precedes it
parse_hms(idx, tokens, res, hms_idx) ==
    IF hms_idx > idx
    THEN At(hms_idx, assign_hms(res, tokens[idx], info_hms(tokens[hms_idx])[1]))
    ELSE At(idx, assign_hms(res, tokens[idx], info_hms(tokens[hms_idx])[1] + 1))

\* _parse_numeric_token, branch "HH:MM[:SS[.ss]]"
parse_clock(tokens, idx, res) ==
    IF ~is_number(tokens[idx + 2])
    THEN At(idx, Fail(res))
    ELSE LET hm == assign_time(res, Some(whole(tokens[idx])),
                               Some(whole(tokens[idx + 2])),
                               seconds_of_minute(tokens[idx + 2]))
         IN  IF idx + 4 <= Len(tokens) /\ tokens[idx + 3] = <<":">>
             THEN At(idx + 4, assign_parsems(hm, tokens[idx + 4]))
             ELSE At(idx + 2, hm)

\* the second and third member of a date with separators
parse_date_member(res, token) ==
    IF info_month(token) # None
    THEN ymd_append(res, info_month(token)[1], "M")
    ELSE append_str(res, token, "")

\* _parse_numeric_token, branch "01-01[-01]", "01-Jan[-01]"
parse_separated(tokens, idx, res) ==
    LET sep == tokens[idx + 1]
        first == append_str(res, tokens[idx], "")
        second == IF isdigit(tokens[idx + 2])
                  THEN append_str(first, tokens[idx + 2], "")
                  ELSE IF info_month(tokens[idx + 2]) # None
                  THEN ymd_append(first, info_month(tokens[idx + 2])[1], "M")
                  ELSE Fail(first)
    IN  IF idx + 2 <= Len(tokens) /\ ~info_jump(tokens[idx + 2])
        THEN IF idx + 3 <= Len(tokens) /\ tokens[idx + 3] = sep
             THEN IF idx + 4 > Len(tokens)
                  THEN At(idx, Fail(second))
                  ELSE At(idx + 4, IF second.failed
                                   THEN second
                                   ELSE parse_date_member(second, tokens[idx + 4]))
             ELSE At(idx + 2, second)
        ELSE At(idx + 1, first)

\* _parse_numeric_token: returns the position of the last token it has
\* used
parse_numeric_token(tokens, idx, res, fuzzy) ==
    LET s == tokens[idx]
        len_li == Len(s)
        len_l == Len(tokens)
    IN  IF ~is_number(s)
        THEN At(idx, Fail(res))
        ELSE IF /\ Len(res.ymd) = 3
                /\ len_li \in {2, 4}
                /\ res.hour = None
                /\ \/ idx + 1 > len_l
                   \/ tokens[idx + 1] # <<":">> /\ info_hms(tokens[idx + 1]) = None
        THEN At(idx, assign_time(res, int_of(slice(s, 0, 2)),
                                 IF len_li = 4 THEN int_of(slice(s, 2, 4)) ELSE Keep,
                                 Keep))
        ELSE IF len_li = 6 \/ (len_li > 6 /\ s[7] = ".")
        THEN IF res.ymd = <<>> /\ count(s, ".") = 0
             THEN At(idx, append_str(append_str(append_str(res, slice(s, 0, 2), ""),
                                                slice(s, 2, 4), ""),
                                     slice(s, 4, len_li), ""))
             ELSE At(idx, assign_parsems(assign_time(res, int_of(slice(s, 0, 2)),
                                                     int_of(slice(s, 2, 4)), Keep),
                                         slice(s, 4, len_li)))
        ELSE IF len_li \in {8, 12, 14}
        THEN At(idx, assign_time(
                         append_str(append_str(append_str(res, slice(s, 0, 4), "Y"),
                                               slice(s, 4, 6), ""),
                                    slice(s, 6, 8), ""),
                         IF len_li > 8 THEN int_of(slice(s, 8, 10)) ELSE Keep,
                         IF len_li > 8 THEN int_of(slice(s, 10, 12)) ELSE Keep,
                         IF len_li > 12 THEN int_of(slice(s, 12, len_li)) ELSE Keep))
        ELSE IF find_hms_idx(idx, tokens) # None
        THEN parse_hms(idx, tokens, res, find_hms_idx(idx, tokens)[1])
        ELSE IF idx + 2 <= len_l /\ tokens[idx + 1] = <<":">>
        THEN parse_clock(tokens, idx, res)
        ELSE IF idx + 1 <= len_l /\ tokens[idx + 1] \in {<<"-">>, <<"/">>, <<".">>}
        THEN parse_separated(tokens, idx, res)
        ELSE IF idx + 1 > len_l \/ info_jump(tokens[idx + 1])
        THEN IF idx + 2 <= len_l /\ info_ampm(tokens[idx + 2]) # None
             THEN At(idx + 2, [res EXCEPT !.hour =
                                  Some(adjust_ampm(whole(s),
                                                   info_ampm(tokens[idx + 2])[1]))])
             ELSE At(idx + 1, append_decimal(res, s))
        ELSE IF info_ampm(tokens[idx + 1]) # None /\ whole(s) < 24
        THEN At(idx + 1, [res EXCEPT !.hour =
                             Some(adjust_ampm(whole(s),
                                              info_ampm(tokens[idx + 1])[1]))])
        ELSE IF could_be_day(res, s)
        THEN At(idx, append_decimal(res, s))
        ELSE IF ~fuzzy
        THEN At(idx, Fail(res))
        ELSE At(idx, res)

\* _parse, branch "Check month name"
parse_month(l, i, res) ==
    LET month == ymd_append(res, info_month(l[i])[1], "M")
    IN  IF month.failed \/ i + 1 > Len(l)
        THEN At(i, month)
        ELSE IF l[i + 1] \in {<<"-">>, <<"/">>}
        THEN IF i + 2 > Len(l)
             THEN At(i, Fail(month))
             ELSE IF i + 3 <= Len(l) /\ l[i + 3] = l[i + 1]
             THEN IF i + 4 > Len(l)
                  THEN At(i, Fail(month))
                  ELSE At(i + 4, append_str(append_str(month, l[i + 2], ""),
                                            l[i + 4], ""))
             ELSE At(i + 2, append_str(month, l[i + 2], ""))
        ELSE IF /\ i + 4 <= Len(l)
                /\ l[i + 1] = <<" ">>
                /\ l[i + 3] = <<" ">>
                /\ info_pertain(l[i + 2])
        THEN IF isdigit(l[i + 4])
             THEN At(i + 4, ymd_append([month EXCEPT !.century_specified = TRUE],
                                       convertyear(int_of_digits(l[i + 4]), FALSE),
                                       "Y"))
             ELSE At(i + 4, month)
        ELSE At(i, month)

\* _parse, branch "Check for a timezone name": before a sign the offset is
\* left to the number that follows, and a name of UTC is dropped
parse_tzname(l, i, res) ==
    IF i + 1 <= Len(l) /\ l[i + 1] \in {<<"+">>, <<"-">>}
    THEN At(i, [res EXCEPT !.tzname = IF info_utczone(l[i]) THEN None ELSE Some(l[i]),
                           !.tzoffset = None])
    ELSE At(i, [res EXCEPT !.tzname = Some(l[i]),
                           !.tzoffset = info_tzoffset(l[i])])

\* _parse, branch "Check for a numbered timezone"
parse_tzoffset(l, i, res) ==
    IF i + 1 > Len(l)
    THEN At(i, Fail(res))
    ELSE LET signal == IF l[i] = <<"+">> THEN 1 ELSE -1
             len_li == Len(l[i + 1])
             colon == len_li # 4 /\ i + 2 <= Len(l) /\ l[i + 2] = <<":">>
             hour_offset == IF len_li = 4 THEN int_of(slice(l[i + 1], 0, 2))
                            ELSE IF colon THEN int_of(l[i + 1])
                            ELSE IF len_li <= 2 THEN int_of(slice(l[i + 1], 0, 2))
                            ELSE None
             min_offset == IF len_li = 4 THEN int_of(slice(l[i + 1], 2, 4))
                           ELSE IF colon
                           THEN IF i + 3 <= Len(l) THEN int_of(l[i + 3]) ELSE None
                           ELSE Some(0)
             j == IF colon THEN i + 2 ELSE i
         IN  IF hour_offset = None \/ min_offset = None
             THEN At(i, Fail(res))
             ELSE LET offset == [res EXCEPT !.tzoffset =
                                     Some(signal * (hour_offset[1] * 3600
                                                    + min_offset[1] * 60))]
                  IN  IF /\ j + 5 <= Len(l)
                         /\ info_jump(l[j + 2])
                         /\ l[j + 3] = <<"(">>
                         /\ l[j + 5] = <<")">>
                         /\ 3 <= Len(l[j + 4])
                         /\ could_be_tzname(res.hour, res.tzname, None, l[j + 4])
                      THEN At(j + 5, [offset EXCEPT !.tzname = Some(l[j + 4])])
                      ELSE At(j + 1, offset)

\* _parse: the branch of the loop body a token takes
token_branch(l, i, res) ==
    IF is_float(l[i]) THEN "number"
    ELSE IF info_weekday(l[i]) # None THEN "weekday"
    ELSE IF info_month(l[i]) # None THEN "month"
    ELSE IF info_ampm(l[i]) # None THEN "ampm"
    ELSE IF could_be_tzname(res.hour, res.tzname, res.tzoffset, l[i]) THEN "tzname"
    ELSE IF res.hour # None /\ l[i] \in {<<"+">>, <<"-">>} THEN "tzoffset"
    ELSE "other"

\* _parse: one pass of the loop over the tokens
parse_token(l, i, res, fuzzy) ==
    CASE token_branch(l, i, res) = "number" -> parse_numeric_token(l, i, res, fuzzy)
      [] token_branch(l, i, res) = "weekday" ->
            At(i, [res EXCEPT !.weekday = info_weekday(l[i])])
      [] token_branch(l, i, res) = "month" -> parse_month(l, i, res)
      [] token_branch(l, i, res) = "ampm" ->
            IF ampm_valid(res.hour, res.ampm, fuzzy) = None
            THEN At(i, Fail(res))
            ELSE IF ampm_valid(res.hour, res.ampm, fuzzy)[1]
            THEN At(i, [res EXCEPT !.hour = Some(adjust_ampm(res.hour[1], info_ampm(l[i])[1])),
                                   !.ampm = info_ampm(l[i])])
            ELSE At(i, res)
      [] token_branch(l, i, res) = "tzname" -> parse_tzname(l, i, res)
      [] token_branch(l, i, res) = "tzoffset" -> parse_tzoffset(l, i, res)
      [] OTHER ->
            IF info_jump(l[i]) \/ fuzzy THEN At(i, res) ELSE At(i, Fail(res))

\* the tokens after a pass of the loop: "GMT+3" means "my time + 3 is GMT",
\* so that the sign behind a time zone name is reversed
tokens_after(l, i, res) ==
    IF /\ token_branch(l, i, res) = "tzname"
       /\ i + 1 <= Len(l)
       /\ l[i + 1] \in {<<"+">>, <<"-">>}
    THEN [l EXCEPT ![i + 1] = IF @ = <<"+">> THEN <<"-">> ELSE <<"+">>]
    ELSE l

\* _parse: the loop over the tokens
RECURSIVE token_loop(_, _, _, _)
token_loop(l, i, res, fuzzy) ==
    IF res.failed \/ i > Len(l)
    THEN res
    ELSE LET at == parse_token(l, i, res, fuzzy)
         IN  token_loop(tokens_after(l, i, res), at.idx + 1, at.res, fuzzy)

\* parserinfo.validate: "Z" and an offset of 0 without a name are UTC, and
\* a name of UTC has the offset 0
validate(res) ==
    IF res.failed THEN res
    ELSE IF \/ res.tzoffset = Some(0) /\ res.tzname = None
            \/ res.tzname \in {Some(<<"Z">>), Some(<<"z">>)}
    THEN [res EXCEPT !.tzname = Some(<<"U", "T", "C">>), !.tzoffset = Some(0)]
    ELSE IF res.tzoffset # Some(0) /\ res.tzname # None /\ info_utczone(res.tzname[1])
    THEN [res EXCEPT !.tzoffset = Some(0)]
    ELSE res

\* parser._parse on the tokens of the text: the loop, then validate
parse_tokens(l, fuzzy) == validate(token_loop(l, 1, EmptyResult, fuzzy))

\* year, month and day, each a value or None
YearMonthDay(year, month, day) == [year |-> year, month |-> month, day |-> day]

\* _ymd.resolve_ymd with yearfirst and dayfirst False; more than three
\* values raise a ValueError
resolve_ymd(res) ==
    LET self == res.ymd
        len_ymd == Len(self)
        strids == (IF res.mstridx # 0 THEN 1 ELSE 0) + (IF res.ystridx # 0 THEN 1 ELSE 0)
        ymd(y, m, d) == YearMonthDay(Some(self[y]), Some(self[m]), Some(self[d]))
    IN  IF (len_ymd = strids /\ strids > 0) \/ (len_ymd = 3 /\ strids = 2)
        THEN YearMonthDay(IF res.ystridx # 0 THEN Some(self[res.ystridx]) ELSE None,
                          IF res.mstridx # 0 THEN Some(self[res.mstridx]) ELSE None,
                          IF len_ymd = 3
                          THEN Some(self[6 - res.ystridx - res.mstridx])
                          ELSE None)
        ELSE IF len_ymd = 1 \/ (res.mstridx # 0 /\ len_ymd = 2)
        THEN LET other == IF res.mstridx # 0 THEN self[3 - res.mstridx] ELSE self[1]
             IN  YearMonthDay(IF other > 31 THEN Some(other) ELSE None,
                              IF res.mstridx # 0 THEN Some(self[res.mstridx]) ELSE None,
                              IF other > 31 THEN None ELSE Some(other))
        ELSE IF len_ymd = 2
        THEN IF self[1] > 31 THEN YearMonthDay(Some(self[1]), Some(self[2]), None)
             ELSE IF self[2] > 31 THEN YearMonthDay(Some(self[2]), Some(self[1]), None)
             ELSE YearMonthDay(None, Some(self[1]), Some(self[2]))
        ELSE IF len_ymd = 3
        THEN IF res.mstridx = 1
             THEN IF self[2] > 31 THEN ymd(2, 1, 3) ELSE ymd(3, 1, 2)
             ELSE IF res.mstridx = 2
             THEN IF self[1] > 31 THEN ymd(1, 2, 3) ELSE ymd(3, 2, 1)
             ELSE IF res.mstridx = 3
             THEN IF self[2] > 31 THEN ymd(2, 3, 1) ELSE ymd(1, 3, 2)
             ELSE IF self[1] > 31 \/ res.ystridx = 1 THEN ymd(1, 2, 3)
             ELSE IF self[1] > 12 THEN ymd(3, 2, 1)
             ELSE ymd(3, 1, 2)
        ELSE YearMonthDay(None, None, None)

\* _build_naive: the fields the text gives replace those of today at 00:00;
\* None stands for the ValueError of a date or time that does not exist and
\* the OverflowError of a date after the year 9999.  A weekday without a
\* day moves the date on to that weekday.
build_naive(res, date, default) ==
    LET year == IF date.year = None
                THEN default.year
                ELSE convertyear(date.year[1], res.century_specified)
        month == IF date.month = None THEN default.month ELSE date.month[1]
        last == monthrange(year, month)
        day == IF date.day # None THEN date.day[1]
               ELSE IF default.day > last THEN last
               ELSE default.day
        ordinal == toordinal(year, month, day)
        days == IF res.weekday # None /\ date.day = None
                THEN ((7 - ((ordinal + 6) % 7)) + res.weekday[1]) % 7
                ELSE 0
    IN  IF /\ year \in 1 .. 9999
           /\ month \in 1 .. 12
           /\ day \in 1 .. last
           /\ res.hour # None => res.hour[1] \in 0 .. 23
           /\ res.minute # None => res.minute[1] \in 0 .. 59
           /\ res.second # None => res.second[1] \in 0 .. 59
           /\ ordinal + days <= toordinal(9999, 12, 31)
        THEN Some(DatetimeRecord(
                      (ordinal + days
                       - toordinal(CurrentYear, EpochDate.month, EpochDate.day))
                      * HoursPerDay
                      + (IF res.hour = None THEN 0 ELSE res.hour[1]),
                      IF res.minute = None THEN 0 ELSE res.minute[1],
                      IF res.second = None THEN 0 ELSE res.second[1],
                      IF res.microsecond = None THEN 0 ELSE res.microsecond[1],
                      None))
        ELSE None

\* time.tzname: the names of the local time zone of the machine
time_tzname == {<<"U", "T", "C">>}

\* _build_tzaware without tzinfos: a name of the local time zone gives
\* tz.tzlocal(), the offset 0 tz.UTC, another offset tz.tzoffset, and a name
\* alone leaves the datetime naive
build_tzaware(naive, res) ==
    IF res.tzname # None /\ res.tzname[1] \in time_tzname
    THEN [naive EXCEPT !.tzinfo = Some(tzlocal)]
    ELSE IF res.tzoffset = Some(0)
    THEN [naive EXCEPT !.tzinfo = Some(tzutc)]
    ELSE IF res.tzoffset # None
    THEN [naive EXCEPT !.tzinfo = Some(tzoffset(res.tzname, res.tzoffset[1]))]
    ELSE naive

\* len(res) == 0: the text has given neither a date nor a time
no_date(res, date) ==
    /\ date.year = None /\ date.month = None /\ date.day = None
    /\ res.weekday = None
    /\ res.hour = None /\ res.minute = None /\ res.second = None
    /\ res.microsecond = None
    /\ res.ampm = None
    /\ res.tzname = None /\ res.tzoffset = None

\* parser.parse after _parse
parse_result(res, now) ==
    IF res.failed \/ Len(res.ymd) > 3
    THEN None
    ELSE IF no_date(res, resolve_ymd(res))
    THEN None
    ELSE IF build_naive(res, resolve_ymd(res), date_of(now)) = None
    THEN None
    ELSE Some(build_tzaware(build_naive(res, resolve_ymd(res), date_of(now))[1], res))

\* dateutil.parser.parse(timestr, fuzzy=fuzzy) at the time now; None stands
\* for the exception it raises
parser_parse(timestr, fuzzy, now) ==
    parse_result(parse_tokens(timelex_split(timestr, 1), fuzzy), now)

\* date_parser.parse(word, fuzzy=True)
date_parser_parse(word, now) == parser_parse(word, TRUE, now)

\* for word in query.split(): the first date a word parses to
RECURSIVE first_parsed_date(_, _, _)
first_parsed_date(words, i, now) ==
    IF i > Len(words)
    THEN None
    ELSE IF date_parser_parse(words[i], now) # None
         THEN date_parser_parse(words[i], now)
         ELSE first_parsed_date(words, i + 1, now)

\* _extract_date, on the original query
extract_date(query, now) ==
    IF re_search(july_4th_pattern, query)
    THEN Some(datetime(date_of(now).year, 7, 4, 0, 0, 0, 0, None))
    ELSE first_parsed_date(split(query, 1, <<>>), 1, now)

-----------------------------------------------------------------------------
(* DataLoader: the cells of the sheet *)

\* A cell of the DataFrame is NaN, a number, a datetime or a string.
\* Numbers are whole numbers.
NaN == [dtype |-> "NaN"]

Number(n) == [dtype |-> "number", value |-> n]

Timestamp(dt) == [dtype |-> "datetime", timestamp |-> dt]

Str(text) == [dtype |-> "str", text |-> text]

\* pd.isna(cell)
isna(cell) == cell.dtype = "NaN"

\* not cell: the number 0 and the empty string are falsy
falsy(cell) ==
    \/ cell.dtype = "number" /\ cell.value = 0
    \/ cell.dtype = "str" /\ cell.text = <<>>

\* str.strip()
RECURSIVE strip(_)
strip(text) ==
    IF text # <<>> /\ text[1] \in space_chars THEN strip(Tail(text))
    ELSE IF text # <<>> /\ text[Len(text)] \in space_chars
    THEN strip(SubSeq(text, 1, Len(text) - 1))
    ELSE text

\* text.split(word)[0]: the text before the first occurrence of the word
text_before(text, word) ==
    SubSeq(text, 1,
           (CHOOSE i \in 1 .. Len(text) :
                /\ SubSeq(text, i, i + Len(word) - 1) = word
                /\ \A j \in 1 .. (i - 1) : SubSeq(text, j, j + Len(word) - 1) # word)
           - 1)

\* float(text), None when it raises: the number is written as an optional
\* sign, digits and an optional decimal point, and is held as the whole
\* number its digits make, the number of digits behind the point and its
\* sign.  The other texts float() reads (an exponent, "inf", "nan", an
\* underscore between digits) are not texts of the model.
float_of(text) ==
    LET signed == strip(text) # <<>> /\ strip(text)[1] \in {"+", "-"}
        digits == IF signed THEN Tail(strip(text)) ELSE strip(text)
    IN  IF is_number(digits)
        THEN Some([negative |-> signed /\ strip(text)[1] = "-",
                   digits |-> int_of_digits(SubSeq(digits, 1, point(digits) - 1)
                                            \o fraction(digits)),
                   scale |-> Len(fraction(digits))])
        ELSE None

\* int(x * times / over) for the float x: int() rounds towards zero
int_of_float(x, times, over) ==
    LET n == (x.digits * times) \div (power_of_ten(x.scale) * over)
    IN  IF x.negative THEN -n ELSE n

\* the duration a text gives when the unit is found in it: the number
\* before the unit, times `times` and over `over`; 0 when float() raises
duration_before(text, unit, times, over) ==
    IF float_of(text_before(text, unit)) = None
    THEN 0
    ELSE int_of_float(float_of(text_before(text, unit))[1], times, over)

\* DataLoader._process_duration: float() of the part before the unit raises
\* when that part is no number, and the except clause returns 0
process_duration(duration_str) ==
    IF isna(duration_str) \/ falsy(duration_str) THEN 0
    ELSE IF duration_str.dtype = "number" THEN duration_str.value
    ELSE IF duration_str.dtype # "str" THEN 0
    ELSE LET text == lower(strip(duration_str.text))
         IN  IF keyword_in(<<"w", "k">>, text)
             THEN duration_before(text, <<"w", "k">>, 5, 1)
             ELSE IF keyword_in(<<"d", "a", "y">>, text)
             THEN duration_before(text, <<"d", "a", "y">>, 1, 1)
             ELSE IF keyword_in(<<"w", "e", "e", "k">>, text)
             THEN duration_before(text, <<"w", "e", "e", "k">>, 5, 1)
             ELSE IF keyword_in(<<"h", "o", "u", "r">>, text)
             THEN duration_before(text, <<"h", "o", "u", "r">>, 1, 8)
             ELSE IF float_of(text) = None THEN 0
             ELSE int_of_float(float_of(text)[1], 1, 1)

\* 1970-01-01 00:00, which pandas counts numbers from
UnixEpoch == datetime(1970, 1, 1, 0, 0, 0, 0, None)

\* the texts pandas reads as NaT instead of raising (nat_strings), and the
\* empty text
nat_strings ==
    {<<>>, <<"N", "a", "T">>, <<"n", "a", "t">>, <<"N", "A", "T">>,
     <<"n", "a", "n">>, <<"N", "a", "N">>, <<"N", "A", "N">>}

\* pd.to_datetime(date_value) of a number or a text at the time now, None
\* when it raises.  A number is taken as nanoseconds since 1970-01-01, of
\* which a datetime of the model keeps the microseconds.  A text of
\* nat_strings gives NaT.  Any other text is read by dateutil's parser,
\* without fuzzy, the fields it does not give being those of today at 00:00;
\* text that is no date raises.
to_datetime(date_value, now) ==
    IF date_value.dtype = "number"
    THEN LET microseconds == date_value.value \div 1000
             seconds == microseconds \div 1000000
         IN  Some(DatetimeRecord(UnixEpoch.hours + seconds \div 3600,
                                 (seconds % 3600) \div 60, seconds % 60,
                                 microseconds % 1000000, None))
    ELSE IF date_value.dtype = "str"
    THEN IF date_value.text \in nat_strings
         THEN Some(NaT)
         ELSE parser_parse(date_value.text, FALSE, now)
    ELSE Some(date_value.timestamp)

\* DataLoader._parse_date, called at the time now: a missing cell and a
\* cell pd.to_datetime cannot parse give datetime.now(); a datetime is
\* returned as it is
parse_date(date_value, now) ==
    IF isna(date_value) THEN now
    ELSE IF date_value.dtype = "datetime" THEN date_value.timestamp
    ELSE Head(to_datetime(date_value, now) \o <<now>>)

\* if end_date < start_date: end_date = start_date
clamped_end_date(start_date, end_date) ==
    IF lt(end_date, start_date) THEN start_date ELSE end_date

\* required_columns of process_data
required_columns ==
    <<"Index", "Task Name", "Duration", "Start", "Finish", "Predecessors",
      "Successors">>

\* The DataFrame pd.read_excel returns: the set of its columns, and its
\* rows in order, a row being a function from the columns to their cells.
DataFrame(columns, rows) == [columns |-> columns, rows |-> rows]

\* the dtype pandas gives a column: object when a cell of it is a text, or
\* when it has datetimes and numbers; datetime64[ns] for a column of
\* datetimes; else, for a column of whole numbers, float64 when a cell of the
\* column is missing and int64 otherwise
column_dtype(raw_data, column) ==
    LET has(dtype) == \E i \in DOMAIN raw_data.rows :
                         raw_data.rows[i][column].dtype = dtype
    IN  IF has("str") \/ (has("datetime") /\ has("number"))
        THEN "object"
        ELSE IF has("datetime")
        THEN "datetime64[ns]"
        ELSE IF \E i \in DOMAIN raw_data.rows : isna(raw_data.rows[i][column])
        THEN "float64"
        ELSE "int64"

\* the dtypes of the columns of a DataFrame
dtypes(raw_data) ==
    [column \in raw_data.columns |-> column_dtype(raw_data, column)]

\* str() of a whole number that is not negative
RECURSIVE str_of_nat(_)
str_of_nat(n) ==
    IF n < 10
    THEN <<DigitChars[n + 1]>>
    ELSE Append(str_of_nat(n \div 10), DigitChars[(n % 10) + 1])

\* str() of a whole number
str_of_int(n) == IF n < 0 THEN <<"-">> \o str_of_nat(-n) ELSE str_of_nat(n)

\* '%0*d': the number with zeros in front, to a width
zfill(n, width) ==
    [k \in 1 .. (width - Len(str_of_nat(n))) |-> "0"] \o str_of_nat(n)

\* utcoffset as "+HH:MM", with the seconds when there are some
str_of_utcoffset(seconds) ==
    LET s == IF seconds < 0 THEN -seconds ELSE seconds
    IN  <<IF seconds < 0 THEN "-" ELSE "+">>
        \o zfill(s \div 3600, 2) \o <<":">> \o zfill((s % 3600) \div 60, 2)
        \o (IF s % 60 = 0 THEN <<>> ELSE <<":">> \o zfill(s % 60, 2))

\* str(datetime): isoformat(sep=' ')
str_of_datetime(dt) ==
    zfill(date_of(dt).year, 4) \o <<"-">> \o zfill(date_of(dt).month, 2)
    \o <<"-">> \o zfill(date_of(dt).day, 2) \o <<" ">>
    \o zfill(dt.hours % HoursPerDay, 2) \o <<":">> \o zfill(dt.minute, 2)
    \o <<":">> \o zfill(dt.second, 2)
    \o (IF dt.microsecond = 0 THEN <<>> ELSE <<".">> \o zfill(dt.microsecond, 6))
    \o (IF dt.tzinfo = None THEN <<>> ELSE str_of_utcoffset(dt.tzinfo[1].utcoffset))

\* str(cell) of a cell of a column of that dtype: str(1) is "1", str(1.0)
\* is "1.0"
str(cell, dtype) ==
    IF cell.dtype = "number"
    THEN IF dtype = "float64"
         THEN str_of_int(cell.value) \o <<".", "0">>
         ELSE str_of_int(cell.value)
    ELSE IF cell.dtype = "datetime" THEN str_of_datetime(cell.timestamp)
    ELSE cell.text

\* text.split(','): the pieces of the text between the commas
RECURSIVE split_at_commas(_)
split_at_commas(text) ==
    IF \A i \in DOMAIN text : text[i] # ","
    THEN <<text>>
    ELSE LET i == CHOOSE i \in DOMAIN text :
                      /\ text[i] = ","
                      /\ \A j \in 1 .. (i - 1) : text[j] # ","
         IN  <<SubSeq(text, 1, i - 1)>>
             \o split_at_commas(SubSeq(text, i + 1, Len(text)))

\* DataLoader._parse_dependencies on a cell of a column of that dtype: a
\* missing or falsy cell gives [], any other the stripped pieces of its str
parse_dependencies(deps_str, dtype) ==
    IF isna(deps_str) \/ falsy(deps_str)
    THEN <<>>
    ELSE the({[k \in DOMAIN deps |-> strip(deps[k])] :
                 deps \in {split_at_commas(str(deps_str, dtype))}})

\* Task(id=..., name=..., start_date=..., end_date=..., duration=...,
\* predecessors=..., successors=...)
TaskRecord(id, name, start_date, end_date, duration, predecessors, successors) ==
    [id |-> id, name |-> name, start_date |-> start_date,
     end_date |-> end_date, duration |-> duration,
     predecessors |-> predecessors, successors |-> successors]

\* lines 102-120 of the loop over the rows, with the two dates parsed; the
\* comparison of the dates may raise
task_of_dates(row, column_dtypes, start_date, end_date) ==
    IF comparison_error(end_date, start_date) # None
    THEN Raised(comparison_error(end_date, start_date)[1])
    ELSE Returned(TaskRecord(str(row["Index"], column_dtypes["Index"]),
                             str(row["Task Name"], column_dtypes["Task Name"]),
                             start_date,
                             clamped_end_date(start_date, end_date),
                             process_duration(row["Duration"]),
                             parse_dependencies(row["Predecessors"],
                                                column_dtypes["Predecessors"]),
                             parse_dependencies(row["Successors"],
                                                column_dtypes["Successors"])))

\* the body of the loop over the rows, for a row that is not skipped.
\* clock[1] is the time at the call of _parse_date for Start, clock[2] the
\* time at the call for Finish: each call reads datetime.now() on its own.
task_of_row(row, column_dtypes, clock) ==
    the({task_of_dates(row, column_dtypes, start_date, end_date) :
            start_date \in {parse_date(row["Start"], clock[1])},
            end_date \in {parse_date(row["Finish"], clock[2])}})

\* self.raw_data.dropna(how='all'): the rows in which some cell is not
\* missing; the columns stay
dropna(raw_data) ==
    DataFrame(raw_data.columns,
              SelectSeq(raw_data.rows,
                        LAMBDA row : \E column \in raw_data.columns :
                                         ~isna(row[column])))

\* [col for col in required_columns if col not in self.raw_data.columns]
missing_columns(raw_data) ==
    SelectSeq(required_columns, LAMBDA col : col \notin raw_data.columns)

\* the loop over the rows from row i on: a row whose Index or Task Name is
\* missing is skipped; an exception leaves the loop.  clock holds the times
\* at the calls of _parse_date that are still to come, two for each row
\* that is not skipped.
RECURSIVE process_rows(_, _, _, _, _)
process_rows(raw_data, i, column_dtypes, clock, task_list) ==
    IF i > Len(raw_data.rows)
    THEN Returned(task_list)
    ELSE IF isna(raw_data.rows[i]["Index"]) \/ isna(raw_data.rows[i]["Task Name"])
    THEN process_rows(raw_data, i + 1, column_dtypes, clock, task_list)
    ELSE the({IF task.raised
              THEN task
              ELSE process_rows(raw_data, i + 1, column_dtypes,
                                Tail(Tail(clock)), Append(task_list, task.value)) :
                 task \in {task_of_row(raw_data.rows[i], column_dtypes, clock)}})

\* DataLoader.process_data on a loader that holds raw_data and task_list:
\* what it returns, and raw_data and tasks of the loader after it.  raw_data
\* is None before load_data.  The empty rows are dropped, which leaves the
\* dtype of a column as it was read.  When a required column is missing the
\* call returns [], and so it does when the loop over the rows raises; in
\* both cases tasks, which is assigned after the loop, stays as it was.
process_data(raw_data, task_list, clock) ==
    IF raw_data = None
    THEN [returned |-> <<>>, raw_data |-> None, tasks |-> task_list]
    ELSE the({IF missing_columns(rows) # <<>>
              THEN [returned |-> <<>>, raw_data |-> Some(rows), tasks |-> task_list]
              ELSE the({[returned |-> IF done.raised THEN <<>> ELSE done.value,
                         raw_data |-> Some(rows),
                         tasks |-> IF done.raised THEN task_list ELSE done.value] :
                            done \in {process_rows(rows, 1, dtypes(raw_data[1]),
                                                   clock, <<>>)}}) :
                 rows \in {dropna(raw_data[1])}})

\* DataLoader.get_task_by_id: the first task that has the id, or None
RECURSIVE get_task_by_id(_, _, _)
get_task_by_id(task_list, i, task_id) ==
    IF i > Len(task_list) THEN None
    ELSE IF task_list[i].id = task_id THEN Some(task_list[i])
    ELSE get_task_by_id(task_list, i + 1, task_id)

-----------------------------------------------------------------------------
(* The calls of DataLoader *)

\* longest sheet, in rows
MaxRows == 2

IndexCells == {NaN, Number(1), Number(2)}

TaskNameCells == {NaN, Str(<<"t">>)}

\* numbers, also negative ones, strings with a unit, a bare number, text
\* that is no duration, the empty string
DurationCells ==
    {NaN, Number(0), Number(3), Number(-2),
     Str(<<"2", " ", "w", "k", "s">>), Str(<<"3", " ", "d", "a", "y", "s">>),
     Str(<<"-", "1", " ", "d", "a", "y">>), Str(<<"1", ".", "5", " ", "W", "e", "e", "k", "s">>),
     Str(<<"1", "6", "h", "o", "u", "r", "s">>), Str(<<"-", "1", "2", " ", "h", "o", "u", "r", "s">>),
     Str(<<" ", "5", " ">>), Str(<<"3", " ", "m", "o", "n", "s">>), Str(<<"a", "b", "c">>),
     Str(<<>>)}

\* a missing date, text that is no date, Thursday 2026-07-02 00:00,
\* Saturday 2026-07-04 12:00, a number, dates written as text: Friday
\* 2026-07-03, "07/03/2026 10:30", "July 6, 2026", "2026-08-01 12:00:00" and,
\* with a time zone, "2026-07-03T10:00Z", and the text "NaT"
DateCells ==
    {NaN, Str(<<"t", "b", "d">>), Timestamp(Naive(0)),
     Timestamp(Naive(2 * HoursPerDay + 12)), Number(3),
     Str(<<"2", "0", "2", "6", "-", "0", "7", "-", "0", "3">>),
     Str(<<"0", "7", "/", "0", "3", "/", "2", "0", "2", "6", " ", "1", "0", ":", "3", "0">>),
     Str(<<"J", "u", "l", "y", " ", "6", ",", " ", "2", "0", "2", "6">>),
     Str(<<"2", "0", "2", "6", "-", "0", "8", "-", "0", "1", " ", "1", "2", ":", "0", "0", ":", "0", "0">>),
     Str(<<"2", "0", "2", "6", "-", "0", "7", "-", "0", "3", "T", "1", "0", ":", "0", "0", "Z">>),
     Str(<<"N", "a", "T">>)}

\* no dependency, the ids "1, 2" as a text, and one id as a number
DependencyCells == {NaN, Str(<<"1", ",", " ", "2">>), Number(2)}

\* what datetime.now() returns during a pass: Friday 2026-07-03 12:00, or
\* a microsecond after it
Now == Naive(HoursPerDay + 12)

ClockTimes == {Now, [Now EXCEPT !.microsecond = 1]}

\* The times at the calls of _parse_date of a pass, in the order of the
\* calls.  The clock of the machine may be set back during a pass.
Clocks == [1 .. (2 * MaxRows) -> ClockTimes]

\* a row of a sheet that has the required columns
Row(index, task_name, duration, start, finish, predecessors, successors) ==
    [column \in Range(required_columns) |->
        CASE column = "Index" -> index
          [] column = "Task Name" -> task_name
          [] column = "Duration" -> duration
          [] column = "Start" -> start
          [] column = "Finish" -> finish
          [] column = "Predecessors" -> predecessors
          [] column = "Successors" -> successors]

\* a row with nothing special about it
PlainRow ==
    Row(Number(1), Str(<<"t">>), Number(3), Timestamp(Naive(0)),
        Timestamp(Naive(0)), NaN, NaN)

\* a row without a value in any cell
EmptyRow == Row(NaN, NaN, NaN, NaN, NaN, NaN, NaN)

\* The rows of the model: the empty row, and the rows that differ from the
\* plain one in their Index and Task Name, in their Duration, in their
\* dates or in their dependencies, which are processed independently of
\* each other.
Rows ==
    {EmptyRow}
    \cup {[PlainRow EXCEPT !["Index"] = index, !["Task Name"] = task_name] :
             index \in IndexCells, task_name \in TaskNameCells}
    \cup {[PlainRow EXCEPT !["Duration"] = duration] : duration \in DurationCells}
    \cup {[PlainRow EXCEPT !["Start"] = start, !["Finish"] = finish] :
             start \in DateCells, finish \in DateCells}
    \cup {[PlainRow EXCEPT !["Predecessors"] = predecessors,
                           !["Successors"] = successors] :
             predecessors \in DependencyCells, successors \in DependencyCells}

\* the rows a sheet of two rows has next to any row of the model: the plain
\* row, one with another Index, the empty row, one without dates, and one
\* whose Finish carries a time zone
CommonRows ==
    {PlainRow, [PlainRow EXCEPT !["Index"] = Number(2)], EmptyRow,
     [PlainRow EXCEPT !["Start"] = NaN, !["Finish"] = NaN],
     [PlainRow EXCEPT !["Finish"] =
         Str(<<"2", "0", "2", "6", "-", "0", "7", "-", "0", "3", "T", "1", "0", ":", "0", "0", "Z">>)]}

\* the DataFrame without one of its columns
without(raw_data, column) ==
    DataFrame(raw_data.columns \ {column},
              [i \in DOMAIN raw_data.rows |->
                  [c \in raw_data.columns \ {column} |-> raw_data.rows[i][c]]])

\* the sheets with the required columns, of up to MaxRows rows
FullSheets ==
    {DataFrame(Range(required_columns), rows) :
        rows \in UNION {{sheet \in [1 .. n -> Rows] :
                             n > 1 => \E i \in 1 .. n : sheet[i] \in CommonRows} :
                        n \in 0 .. MaxRows}}

\* The sheets pd.read_excel has read: those with the required columns, and
\* sheets that lack one of them
Sheets ==
    FullSheets
    \cup {without(DataFrame(Range(required_columns),
                            rows), required_columns[k]) :
             rows \in {<<PlainRow>>, <<EmptyRow, PlainRow>>},
             k \in DOMAIN required_columns}

\* the ids get_task_by_id is asked for: the str of an Index, and an id no
\* row has
TaskIds == {<<"1">>, <<"2">>, <<"1", ".", "0">>, <<"3">>}

\* DataLoader.__init__: raw_data is None and tasks is []
LoaderInit ==
    /\ tasks = <<>>
    /\ call = NoCall
    /\ response = NoResponse
    /\ earlier = None
    /\ session_state = InitialSessionState

\* process_data on the sheet load_data has read, or before load_data: the
\* call holds raw_data as it was before and as it is after the call, and
\* the times at the calls of _parse_date.  load_data of app.py makes a new
\* DataLoader for every load (line 43), so that process_data is called on a
\* loader whose tasks are [].
ProcessData ==
    /\ call = NoCall
    /\ tasks = <<>>
    /\ \E raw_data \in {None} \cup {Some(sheet) : sheet \in Sheets} :
           \E clock \in Clocks :
               \E done \in {process_data(raw_data, tasks, clock)} :
                   /\ call' = [op |-> "process_data", raw_data |-> raw_data,
                               clock |-> clock, raw_data_after |-> done.raw_data]
                   /\ response' = Returned(done.returned)
                   /\ tasks' = done.tasks
    /\ UNCHANGED <<earlier, session_state>>

GetTaskById ==
    /\ call = NoCall
    /\ tasks # <<>>
    /\ \E task_id \in TaskIds :
        /\ call' = [op |-> "get_task_by_id", task_id |-> task_id]
        /\ response' = Returned(get_task_by_id(tasks, 1, task_id))
    /\ UNCHANGED <<tasks, earlier, session_state>>

LoaderNext ==
    \/ ProcessData
    \/ GetTaskById
    \/ TakeOutcome

LoaderSpec == LoaderInit /\ [][LoaderNext]_vars

-----------------------------------------------------------------------------
(* What the properties below talk about *)

\* the calls that return an Analysis Result; the finders return the findings
ReturnsAnalysisResult ==
    call.op \in {"analyze_query", "calculate_weekend_impact"}

HolidayMode ==
    \/ call.op = "find_holiday_tasks"
    \/ call.op = "analyze_query" /\ call.query_type = "holiday_impact"

WeekendPerTaskMode == call.op = "find_weekend_tasks"

ProjectWeekendMode ==
    \/ call.op = "calculate_weekend_impact"
    \/ call.op = "analyze_query" /\ call.query_type = "weekend_impact"

TargetDateMode ==
    \/ call.op = "find_tasks_impacted_by_date"
    \/ /\ call.op = "analyze_query"
       /\ call.query_type = "specific_date"
       /\ call.specific_date # None

InvalidQuery ==
    /\ call.op = "analyze_query"
    /\ \/ call.query_type \notin
              {"holiday_impact", "weekend_impact", "specific_date"}
       \/ call.query_type = "specific_date" /\ call.specific_date = None

TargetDate == call.specific_date[1]

\* the findings of a call that returned
Findings ==
    IF ReturnsAnalysisResult
    THEN response.value.impacted_tasks
    ELSE response.value

\* the places of the findings about the i-th task of the list
FindingsOf(i) == {k \in 1 .. Len(Findings) : Findings[k].task = tasks[i]}

Flagged(i) == FindingsOf(i) # {}

RECURSIVE SumOf(_, _)
SumOf(f, n) == IF n = 0 THEN 0 ELSE f[n].delay_days + SumOf(f, n - 1)

\* the largest delay_days of the findings, 0 when there are none
MaxDelay(f) ==
    IF f = <<>> THEN 0
    ELSE CHOOSE m \in {f[k].delay_days : k \in 1 .. Len(f)} :
             \A k \in 1 .. Len(f) : f[k].delay_days <= m

\* the calendar dates from the date of start_date to the date of end_date
\* that are weekend days
WeekendDatesOf(task) ==
    {d \in DateOf(task.start_date) .. DateOf(task.end_date) :
        (d + Epoch.weekday) % 7 \in {5, 6}}

\* the calendar date d (days from Epoch) is a holiday
HolidayDate(d) == is_holiday(Naive(d * HoursPerDay))

HolidayStrictlyInside(task) ==
    /\ ~is_holiday(task.start_date)
    /\ ~is_holiday(task.end_date)
    /\ \E d \in DateOf(task.start_date) .. DateOf(task.end_date) :
           HolidayDate(d)

-----------------------------------------------------------------------------
(* Properties *)

\* C1: every call of analyze_query, for any selector, any optional target
\* date and any task list, completes and returns an Analysis Result; no call
\* raises.  Fails: a target date that is an ordinary working day inside a
\* task's span makes TaskImpact reject impact_type "general_query".
C1_AnalyzeQueryNeverRaises ==
    call.op = "analyze_query" => ~response.raised

\* C2: in target-date mode the call yields findings whose impact_type is
\* holiday if the target date is a holiday, else weekend if it is a weekend
\* day, else general, and whose delay_days is 1 for a holiday or weekend day
\* and 0 otherwise; a task spanning an ordinary working day gets a finding
\* of type general with delay 0.  Fails with C1: that finding is never built.
C2_TargetDateClassification ==
    TargetDateMode =>
        /\ ~response.raised
        /\ \A i \in 1 .. Len(tasks) :
               date_in_task(tasks[i], TargetDate) => Flagged(i)
        /\ \A k \in 1 .. Len(Findings) :
               /\ Findings[k].impact_type =
                      (IF is_holiday(TargetDate) THEN "holiday"
                       ELSE IF is_weekend(TargetDate) THEN "weekend"
                       ELSE "general_query")
               /\ Findings[k].delay_days =
                      (IF is_holiday(TargetDate) \/ is_weekend(TargetDate)
                       THEN 1 ELSE 0)

\* C3: in every Analysis Result returned, total_project_delay is absent or
\* equals the maximum of the findings' delay_days; project-wide weekend mode
\* returns it present and equal to that maximum (0 without findings).
C3_TotalIsMaxDelay ==
    (ReturnsAnalysisResult /\ ~response.raised) =>
        /\ \/ response.value.total_project_delay = None
           \/ response.value.total_project_delay = Some(MaxDelay(Findings))
        /\ ProjectWeekendMode =>
               response.value.total_project_delay = Some(MaxDelay(Findings))

\* C3 witness: weekend mode returned two findings with different delays, of
\* which the total is the larger one and not the sum
C3_Witness ==
    /\ ProjectWeekendMode
    /\ ~response.raised
    /\ Len(Findings) = 2
    /\ Findings[1].delay_days > Findings[2].delay_days
    /\ Findings[2].delay_days > 0
    /\ SumOf(Findings, 2) > MaxDelay(Findings)
    /\ response.value.total_project_delay = Some(Findings[1].delay_days)

\* C4: the findings of project-wide weekend mode are ordered by delay_days
\* non-increasing, and findings with equal delay_days keep the relative order
\* of their tasks in the task list.
C4_SortedDescendingStable ==
    (ProjectWeekendMode /\ ~response.raised) =>
        \A k, l \in 1 .. Len(Findings) :
            k < l =>
                /\ Findings[k].delay_days >= Findings[l].delay_days
                /\ Findings[k].delay_days = Findings[l].delay_days =>
                       \E i, j \in 1 .. Len(tasks) :
                           /\ i < j
                           /\ Findings[k].task = tasks[i]
                           /\ Findings[l].task = tasks[j]

\* C4 witness: two findings with the same delay, in task order
C4_Witness ==
    /\ ProjectWeekendMode
    /\ ~response.raised
    /\ Len(Findings) = 2
    /\ Findings[1].delay_days = Findings[2].delay_days
    /\ Findings[1].task = tasks[1]
    /\ Findings[2].task = tasks[2]

\* C5: in project-wide weekend mode every task's count is the number of
\* calendar dates of its inclusive span that are weekend days: the task has
\* a finding iff that number is > 0, and the finding's delay_days is that
\* number.  Fails: the scan steps 24 hours from start_date and stops past
\* end_date, so it misses the last date when end_date's time of day is
\* earlier than start_date's.
C5_CountsWeekendDatesOfSpan ==
    (ProjectWeekendMode /\ ~response.raised) =>
        \A i \in 1 .. Len(tasks) :
            /\ Flagged(i) <=> Cardinality(WeekendDatesOf(tasks[i])) > 0
            /\ \A k \in FindingsOf(i) :
                   Findings[k].delay_days =
                       Cardinality(WeekendDatesOf(tasks[i]))

\* C6: holiday-impact mode returns a finding for a task iff the task's start
\* date is a holiday or its end date is a holiday.
C6_HolidayFlaggedIffBoundary ==
    HolidayMode =>
        /\ ~response.raised
        /\ \A i \in 1 .. Len(tasks) :
               Flagged(i) <=> (\/ is_holiday(tasks[i].start_date)
                               \/ is_holiday(tasks[i].end_date))

\* C6 witness: a task with a holiday strictly inside its span and on neither
\* boundary is not flagged, next to a task that is
C6_Witness ==
    /\ HolidayMode
    /\ ~response.raised
    /\ \E i, j \in 1 .. Len(tasks) :
           /\ HolidayStrictlyInside(tasks[i])
           /\ ~Flagged(i)
           /\ Flagged(j)

\* C7: in holiday-impact mode a finding's delay_days is 1 when the task's
\* start date is a holiday and 0 otherwise, also when only the end date is a
\* holiday; an end-date holiday adds a description clause only.
C7_HolidayDelayFromStartOnly ==
    (HolidayMode /\ ~response.raised) =>
        \A k \in 1 .. Len(Findings) :
            LET f == Findings[k]
                start_clauses == IF is_holiday(f.task.start_date) THEN 1 ELSE 0
                end_clauses == IF is_holiday(f.task.end_date) THEN 1 ELSE 0
            IN  /\ f.delay_days = start_clauses
                /\ Len(f.impact_description) = start_clauses + end_clauses
                /\ end_clauses = 1 =>
                       f.impact_description[start_clauses + 1][1] =
                           "Task ends on holiday: "

\* C7 witness: a finding for a task of which only the end date is a holiday,
\* with delay 0 and the end clause
C7_Witness ==
    /\ HolidayMode
    /\ ~response.raised
    /\ \E k \in 1 .. Len(Findings) :
           /\ ~is_holiday(Findings[k].task.start_date)
           /\ is_holiday(Findings[k].task.end_date)
           /\ Findings[k].delay_days = 0
           /\ Len(Findings[k].impact_description) = 1

\* C8: in weekend-impact per-task mode a task is flagged iff its start or end
\* date is a weekend day, and the finding's delay_days is 2 when the start
\* date has weekday index 5, 1 when it has index 6 and 0 when only the end
\* date is a weekend day.
C8_WeekendPerTaskDelay ==
    WeekendPerTaskMode =>
        /\ ~response.raised
        /\ \A i \in 1 .. Len(tasks) :
               /\ Flagged(i) <=> (\/ weekday(tasks[i].start_date) \in {5, 6}
                                  \/ weekday(tasks[i].end_date) \in {5, 6})
               /\ \A k \in FindingsOf(i) :
                      Findings[k].delay_days =
                          (IF weekday(tasks[i].start_date) = 5 THEN 2
                           ELSE IF weekday(tasks[i].start_date) = 6 THEN 1
                           ELSE 0)

\* C8 witness: a task from the first to the second weekend day gets 2, a
\* task of which only the end date is a weekend day gets 0
C8_Witness ==
    /\ WeekendPerTaskMode
    /\ ~response.raised
    /\ \E k, l \in 1 .. Len(Findings) :
           /\ weekday(Findings[k].task.start_date) = 5
           /\ weekday(Findings[k].task.end_date) = 6
           /\ Findings[k].delay_days = 2
           /\ weekday(Findings[l].task.start_date) < 5
           /\ Findings[l].delay_days = 0

\* C9: target-date mode flags a task iff start_date <= target <= end_date,
\* the boundaries included, and each such task yields exactly one finding.
\* Fails with C1: for a target date that is an ordinary working day the call
\* raises and no task is flagged.
C9_TargetDateFlagsSpan ==
    TargetDateMode =>
        /\ ~response.raised
        /\ \A i \in 1 .. Len(tasks) :
               Cardinality(FindingsOf(i)) =
                   (IF /\ le(tasks[i].start_date, TargetDate)
                       /\ le(TargetDate, tasks[i].end_date)
                    THEN 1 ELSE 0)

\* C10: analyze_query with a selector outside {holiday_impact,
\* weekend_impact, specific_date}, or with specific_date and no date, returns
\* an Analysis Result with no findings, no total_project_delay and the same
\* fixed summary, and does not raise.
C10_InvalidQueryResult ==
    InvalidQuery =>
        /\ ~response.raised
        /\ response.value.impacted_tasks = <<>>
        /\ response.value.total_project_delay = None
        /\ response.value.analysis_summary =
               <<"Invalid query type or missing required parameters">>

\* C10 witness: specific_date without a date, on a task list that is not
\* empty, has returned the invalid-query result
C10_Witness ==
    /\ call.op = "analyze_query"
    /\ call.query_type = "specific_date"
    /\ call.specific_date = None
    /\ tasks # <<>>
    /\ ~response.raised
    /\ response.value.impacted_tasks = <<>>

-----------------------------------------------------------------------------
(* Properties of a session of several calls (SessionSpec) *)

\* C11: a call made with the task list, the selector and the target date of
\* an earlier call of the session has the outcome the earlier call had,
\* whichever calls were made in between.
C11_RepeatedCallSameResult ==
    (earlier # None /\ call = earlier[1].call) =>
        /\ response.raised = earlier[1].response.raised
        /\ response = earlier[1].response

\* C11 witness: the project-wide weekend mode, called again after its
\* outcome was kept, has returned two findings in the order the sort gave
\* them, the second task of the list first
C11_Witness ==
    /\ earlier # None
    /\ call = earlier[1].call
    /\ call.op = "analyze_query"
    /\ call.query_type = "weekend_impact"
    /\ ~response.raised
    /\ Len(tasks) = 2
    /\ Len(response.value.impacted_tasks) = 2
    /\ response.value.impacted_tasks[1].task = tasks[2]
    /\ response = earlier[1].response

\* C12: no step of a session changes the task list: its length, its order
\* and every field of every Task Record stay as they were; the sort of the
\* project-wide weekend mode orders the findings only.
C12_TaskListUnchanged == [][tasks' = tasks]_vars

\* C12 witness: after an earlier holiday call, the project-wide weekend mode
\* has returned the findings about a list of two tasks in the opposite order
\* of the list
C12_Witness ==
    /\ earlier # None
    /\ earlier[1].call.op = "find_holiday_tasks"
    /\ call.op = "calculate_weekend_impact"
    /\ ~response.raised
    /\ Len(tasks) = 2
    /\ Len(response.value.impacted_tasks) = 2
    /\ response.value.impacted_tasks[1].task = tasks[2]
    /\ response.value.impacted_tasks[2].task = tasks[1]

-----------------------------------------------------------------------------
(* The project-wide weekend mode against find_impacted_dates (Spec) *)

\* the entries find_impacted_dates returns for the span of the i-th task
ImpactedDatesOf(i) ==
    find_impacted_dates(tasks[i].start_date, tasks[i].end_date).value

\* C13 as stated: the project-wide weekend mode flags a task iff
\* find_impacted_dates of its span has an entry whose reason is "Weekend".
\* Fails: a weekend date that is a holiday is entered with the reason
\* "Holiday: <name>", and the weekend mode counts it.
C13_FlaggedIffWeekendReason ==
    (ProjectWeekendMode /\ ~response.raised) =>
        \A i \in 1 .. Len(tasks) :
            Flagged(i) <=>
                \E k \in 1 .. Len(ImpactedDatesOf(i)) :
                    ImpactedDatesOf(i)[k][2] = <<"Weekend">>

\* C13, amended: the project-wide weekend mode flags a task iff
\* find_impacted_dates of its span has an entry whose date is a weekend day,
\* whatever the entry's reason is.
C13_FlaggedIffWeekendDateEntered ==
    (ProjectWeekendMode /\ ~response.raised) =>
        \A i \in 1 .. Len(tasks) :
            Flagged(i) <=>
                \E k \in 1 .. Len(ImpactedDatesOf(i)) :
                    is_weekend(ImpactedDatesOf(i)[k][1])

\* C13 witness: the weekend mode has flagged a task whose only weekend date
\* is the holiday Saturday 2026-07-04, entered as a holiday, and has not
\* flagged a task whose span has a holiday entry only
C13_Witness ==
    /\ ProjectWeekendMode
    /\ ~response.raised
    /\ Len(tasks) = 2
    /\ Flagged(1)
    /\ Len(ImpactedDatesOf(1)) = 1
    /\ is_weekend(ImpactedDatesOf(1)[1][1])
    /\ ImpactedDatesOf(1)[1][2] = <<"Holiday: ", "Independence Day">>
    /\ ~Flagged(2)
    /\ Len(ImpactedDatesOf(2)) = 1

-----------------------------------------------------------------------------
(* Properties of the calls of DateUtils (OracleSpec) *)

\* calendar dates, by the calendar of holidays.US()
WeekendDate(d) == (d + Epoch.weekday) % 7 \in {5, 6}

WorkingDate(d) == ~WeekendDate(d) /\ ~HolidayDate(d)

NonWorkingDatesOf(start_date, end_date) ==
    {d \in DateOf(start_date) .. DateOf(end_date) : ~WorkingDate(d)}

\* the iterations the loop of get_next_business_day needs at most with a
\* well-formed calendar: the 7 days of a week and the longest run of holidays
IterationGuard ==
    7 + Cardinality({d \in 0 .. (OracleDays - 1) : HolidayDate(d)})

\* C14: a call of get_next_business_day ends whatever the calendar is: the
\* loop is guarded by an upper bound on its iterations, so it is never found
\* iterating beyond that bound, also when every date is a holiday.  Fails:
\* the loop has no guard and goes on for as long as it is followed.
C14_ScanIsGuarded ==
    call.op = "get_next_business_day" => call.iterations <= IterationGuard

\* C15: with the calendar of holidays.US(), get_next_business_day(D) returns,
\* for a working and for a non-working D, a date later than D that is a
\* working day, and every date strictly between D and it is a weekend day or
\* a holiday.
C15_NextWorkingDay ==
    (call.op = "get_next_business_day" /\ call.calendar = "US") =>
        /\ call.iterations < MaxIterations
        /\ call.pc = "return" =>
            /\ ~response.raised
            /\ DateOf(response.value.next_day) > DateOf(call.date)
            /\ WorkingDate(DateOf(response.value.next_day))
            /\ \A d \in (DateOf(call.date) + 1) ..
                           (DateOf(response.value.next_day) - 1) :
                   ~WorkingDate(d)

\* C15 witness: asked for the day after Thursday 2026-07-02 noon, a working
\* day, the call has returned Monday 2026-07-06 noon, past a holiday and a
\* weekend
C15_Witness ==
    /\ call.op = "get_next_business_day"
    /\ call.calendar = "US"
    /\ call.pc = "return"
    /\ call.date = Naive(12)
    /\ call.iterations = 3
    /\ response = Returned([next_day |-> Naive(4 * HoursPerDay + 12)])

\* C16: calculate_business_days(start, end) returns the number of the
\* calendar dates from start's to end's, both included, that are neither
\* weekend days nor holidays, and 0 when end < start.  Fails: the scan steps
\* 24 hours from start and misses end's date when end's time of day is
\* earlier than start's.
C16_CountsWorkingDatesOfRange ==
    call.op = "calculate_business_days" =>
        response.value.business_days =
            IF lt(call.end_date, call.start_date)
            THEN 0
            ELSE Cardinality(
                     {d \in DateOf(call.start_date) .. DateOf(call.end_date) :
                         WorkingDate(d)})

\* C17: find_impacted_dates(start, end) returns one entry for each
\* non-working calendar date from start's to end's, both included, and no
\* other entry, in strictly increasing order of date; the reason of an entry
\* is "Holiday: <name>" when its date is a holiday, also on a weekend, and
\* "Weekend" otherwise; the result is empty when end < start.  Fails: the
\* scan steps 24 hours from start and misses end's date when end's time of
\* day is earlier than start's.
C17_EnumeratesNonWorkingDates ==
    call.op = "find_impacted_dates" =>
        LET entries == response.value.impacted_dates
            n == Len(entries)
        IN  /\ lt(call.end_date, call.start_date) => entries = <<>>
            /\ le(call.start_date, call.end_date) =>
                   {DateOf(entries[k][1]) : k \in 1 .. n} =
                       NonWorkingDatesOf(call.start_date, call.end_date)
            /\ \A k \in 1 .. n - 1 :
                   DateOf(entries[k][1]) < DateOf(entries[k + 1][1])
            /\ \A k \in 1 .. n :
                   entries[k][2] =
                       IF HolidayDate(DateOf(entries[k][1]))
                       THEN <<"Holiday: ", get_holiday_name(entries[k][1])>>
                       ELSE <<"Weekend">>

-----------------------------------------------------------------------------
(* Properties of the calls of DataLoader (LoaderSpec) *)

\* the rows of a sheet that process_data does not skip, in order
KeptRows(raw_data) ==
    SelectSeq(raw_data.rows,
              LAMBDA row : ~isna(row["Index"]) /\ ~isna(row["Task Name"]))

\* the records of a pass and the rows they were made of: a pass yields a
\* record for every row it does not skip, or, when a required column is
\* missing or the pass raises, none
RecordsOfKeptRows ==
    (call.op = "process_data" /\ call.raw_data # None) =>
        \/ response.value = <<>>
        \/ /\ missing_columns(call.raw_data[1]) = <<>>
           /\ Len(response.value) = Len(KeptRows(call.raw_data[1]))

\* C18: every Task Record process_data yields has end_date >= start_date;
\* the record of a row whose Finish is before its Start has the row's Start
\* as start_date and as end_date.  Fails: a Start or Finish cell that holds
\* the text "NaT" is parsed to NaT, which is before no date and after none,
\* so that the record keeps it and end_date >= start_date is false.
C18_EndNotBeforeStart ==
    /\ \A k \in 1 .. Len(tasks) : le(tasks[k].start_date, tasks[k].end_date)
    /\ RecordsOfKeptRows
    /\ (call.op = "process_data" /\ call.raw_data # None) =>
           LET kept == KeptRows(call.raw_data[1])
               records == response.value
           IN  \A k \in 1 .. Len(records) :
                   /\ le(records[k].start_date, records[k].end_date)
                   /\ (/\ kept[k]["Start"].dtype = "datetime"
                       /\ kept[k]["Finish"].dtype = "datetime"
                       /\ lt(kept[k]["Finish"].timestamp, kept[k]["Start"].timestamp)) =>
                          /\ records[k].start_date = kept[k]["Start"].timestamp
                          /\ records[k].end_date = kept[k]["Start"].timestamp

\* what holds of the dates of the records: end_date >= start_date in every
\* record neither date of which is NaT, also when datetime.now() stands in
\* for a date and the clock was set back between two calls of _parse_date;
\* and the record of a row whose Finish is before its Start has the row's
\* Start as start_date and as end_date
EndNotBeforeStartUnlessNaT ==
    /\ RecordsOfKeptRows
    /\ (call.op = "process_data" /\ call.raw_data # None) =>
           LET kept == KeptRows(call.raw_data[1])
               records == response.value
           IN  \A k \in 1 .. Len(records) :
                   /\ (records[k].start_date # NaT /\ records[k].end_date # NaT) =>
                          le(records[k].start_date, records[k].end_date)
                   /\ (records[k].start_date = NaT \/ records[k].end_date = NaT) =>
                          \/ kept[k]["Start"].dtype = "str" /\ kept[k]["Start"].text \in nat_strings
                          \/ kept[k]["Finish"].dtype = "str" /\ kept[k]["Finish"].text \in nat_strings
                   /\ (/\ kept[k]["Start"].dtype = "datetime"
                       /\ kept[k]["Finish"].dtype = "datetime"
                       /\ lt(kept[k]["Finish"].timestamp, kept[k]["Start"].timestamp)) =>
                          /\ records[k].start_date = kept[k]["Start"].timestamp
                          /\ records[k].end_date = kept[k]["Start"].timestamp

\* C19: every Task Record process_data yields has a duration that is a
\* whole number >= 0, whatever the row's Duration cell holds.  Fails: a
\* negative number, and a negative number with a unit, gives a negative
\* duration.
C19_DurationNotNegative ==
    call.op = "process_data" =>
        \A k \in 1 .. Len(response.value) : response.value[k].duration \in Nat

\* C20: the Task Records of a loaded data set have pairwise distinct ids,
\* whatever the rows' Index cells hold, so that an id names at most one
\* record.  Fails: two rows with the same Index give two records with the
\* same id, and get_task_by_id returns the first.
C20_IdsPairwiseDistinct ==
    \A j \in 1 .. Len(tasks) :
        \A k \in 1 .. Len(tasks) : tasks[j].id = tasks[k].id => j = k

-----------------------------------------------------------------------------
(* Target-date mode and times of day (Spec) *)

\* C21: in target-date mode a task has a finding only if its start
\* timestamp is not later and its end timestamp not earlier than the target
\* timestamp; a task that starts on the target's calendar date at a later
\* time of day than the target, or ends on it at an earlier one, has none.
C21_MembershipByTimestamp ==
    (TargetDateMode /\ ~response.raised) =>
        \A i \in 1 .. Len(tasks) :
            /\ Flagged(i) =>
                   /\ le(tasks[i].start_date, TargetDate)
                   /\ le(TargetDate, tasks[i].end_date)
            /\ (/\ DateOf(tasks[i].start_date) = DateOf(TargetDate)
                /\ lt(TargetDate, tasks[i].start_date)) => ~Flagged(i)
            /\ (/\ DateOf(tasks[i].end_date) = DateOf(TargetDate)
                /\ lt(tasks[i].end_date, TargetDate)) => ~Flagged(i)

\* C21 witness: asked about Friday 2026-07-03 00:00, the target-date mode
\* has returned a finding about a task that starts on Thursday and none
\* about a task that starts on that Friday at noon
C21_Witness ==
    /\ TargetDateMode
    /\ ~response.raised
    /\ TargetDate = Naive(HoursPerDay)
    /\ Len(tasks) = 2
    /\ tasks[1].start_date = Naive(0)
    /\ Flagged(1)
    /\ tasks[2].start_date = Naive(HoursPerDay + 12)
    /\ ~Flagged(2)

-----------------------------------------------------------------------------
(* QueryProcessor: responses *)

AnalysisTypes == {"holiday_impact", "weekend_impact", "specific_date", "general_query"}

\* TaskAnalysisResponse; of the fields of the schemas the model keeps those
\* the application reads.  A text is a sequence of parts.
TaskAnalysisResponse(query_understanding, analysis_type, specific_date, follow_up_questions, impact_summary) ==
    [response_type |-> "task_analysis",
     query_understanding |-> query_understanding,
     analysis_type |-> analysis_type,
     specific_date |-> specific_date,
     follow_up_questions |-> follow_up_questions,
     impact_summary |-> impact_summary]

ScheduleImpactResponse(query_understanding, analysis_type, specific_date, follow_up_questions, impact_summary) ==
    [response_type |-> "schedule_impact",
     query_understanding |-> query_understanding,
     analysis_type |-> analysis_type,
     specific_date |-> specific_date,
     follow_up_questions |-> follow_up_questions,
     impact_summary |-> impact_summary]

GeneralQueryResponse(query_understanding, analysis_type, specific_date, follow_up_questions, answer) ==
    [response_type |-> "general_query",
     query_understanding |-> query_understanding,
     analysis_type |-> analysis_type,
     specific_date |-> specific_date,
     follow_up_questions |-> follow_up_questions,
     answer |-> answer]

\* What self.client.chat.completions.create does is up to the language
\* model: it raises, or it returns an object of the response model, whose
\* analysis_type, specific_date and follow_up_questions the language model
\* has chosen (llm.value).
get_task_analysis_response(query, analysis_type, specific_date, llm) ==
    IF llm.raised
    THEN TaskAnalysisResponse(<<"Error processing query">>, analysis_type,
                              specific_date, <<>>, <<"No response from LLM">>)
    ELSE TaskAnalysisResponse(<<"understanding">>, llm.value.analysis_type,
                              llm.value.specific_date,
                              llm.value.follow_up_questions, <<"summary">>)

get_schedule_impact_response(query, analysis_type, llm) ==
    IF llm.raised
    THEN ScheduleImpactResponse(<<"Error processing query">>, analysis_type,
                                None, <<>>, <<"Error: ", llm.value.error>>)
    ELSE ScheduleImpactResponse(<<"understanding">>, llm.value.analysis_type,
                                llm.value.specific_date,
                                llm.value.follow_up_questions, <<"summary">>)

get_general_query_response(query, llm) ==
    IF llm.raised
    THEN GeneralQueryResponse(<<"Error processing query">>, "general_query",
                              None, <<>>, <<"Error: ", llm.value.error>>)
    ELSE GeneralQueryResponse(<<"understanding">>, llm.value.analysis_type,
                              llm.value.specific_date,
                              llm.value.follow_up_questions, <<"answer">>)

\* The branch process_query takes: the helper it calls, and the analysis
\* type and the date it hands to it (they go into the prompt).
Branch(helper, analysis_type, specific_date) ==
    [helper |-> helper, analysis_type |-> analysis_type,
     specific_date |-> specific_date]

\* a variant that looks for a date pattern first
branch_for_date_first(preprocessed_query, query, now) ==
    IF is_specific_date_query(preprocessed_query)
    THEN Branch("_get_task_analysis_response", "specific_date",
                extract_date(query, now))
    ELSE IF is_holiday_query(preprocessed_query)
    THEN Branch("_get_task_analysis_response", "holiday_impact", None)
    ELSE IF is_weekend_query(preprocessed_query)
    THEN Branch("_get_schedule_impact_response", "weekend_impact", None)
    ELSE Branch("_get_general_query_response", "general_query", None)

\* the if ... elif ... else of process_query
branch_for(preprocessed_query, query, now) ==
    IF is_holiday_query(preprocessed_query)
    THEN Branch("_get_task_analysis_response", "holiday_impact", None)
    ELSE IF is_weekend_query(preprocessed_query)
    THEN Branch("_get_schedule_impact_response", "weekend_impact", None)
    ELSE IF is_specific_date_query(preprocessed_query)
    THEN Branch("_get_task_analysis_response", "specific_date",
                extract_date(query, now))
    ELSE Branch("_get_general_query_response", "general_query", None)

\* preprocessed_query = self._preprocess_query(query), and the branch taken
selected(query, now) == branch_for(preprocess_query(query), query, now)

\* the call of the helper of the branch
response_of(branch, query, llm) ==
    CASE branch.helper = "_get_task_analysis_response" ->
            get_task_analysis_response(query, branch.analysis_type,
                                       branch.specific_date, llm)
      [] branch.helper = "_get_schedule_impact_response" ->
            get_schedule_impact_response(query, branch.analysis_type, llm)
      [] branch.helper = "_get_general_query_response" ->
            get_general_query_response(query, llm)

\* QueryProcessor.process_query
llm_process_query(query, now, llm) ==
    the({response_of(branch, query, llm) : branch \in {selected(query, now)}})

-----------------------------------------------------------------------------
(* ResolverSpec: questions put to QueryProcessor.process_query *)

\* the most words a question of the model has
MaxQueryWords == 3

\* the pieces the questions of the model are made of: words, among them
\* dates and times of day, one with a time zone, and "July" and "4th" with a
\* tab between them
QueryWords ==
    {<<"t", "a", "s", "k", "s">>,
     <<"H", "o", "l", "i", "d", "a", "y">>,
     <<"W", "e", "e", "k", "e", "n", "d">>,
     <<"J", "u", "l", "y">>,
     <<"4", "t", "h">>,
     <<"7", "/", "3">>,
     <<"7", "/", "3", "?">>,
     <<"C", "h", "r", "i", "s", "t", "m", "a", "s">>,
     <<"J", "u", "l", "y", "\t", "4", "t", "h">>,
     <<"1", "0", ":", "3", "0">>,
     <<"1", "0", ":", "0", "0", "Z">>}

\* " ".join(words)
RECURSIVE join(_)
join(words) ==
    IF Len(words) = 1
    THEN words[1]
    ELSE words[1] \o <<" ">> \o join(Tail(words))

Queries ==
    {join(words) : words \in UNION {[1 .. n -> QueryWords] : n \in 1 .. MaxQueryWords}}

\* a follow-up question the language model suggests
FollowUpQuestion == join(<<<<"H", "o", "l", "i", "d", "a", "y">>, <<"t", "a", "s", "k", "s">>>>)

LLMReplies ==
    [analysis_type : AnalysisTypes,
     specific_date : {None, Some(datetime(CurrentYear, 7, 4, 0, 0, 0, 0, None))},
     follow_up_questions : {<<FollowUpQuestion>>}]

LLMOutcomes ==
    {Raised([error |-> "APIError"])} \cup {Returned(reply) : reply \in LLMReplies}

ResolverInit ==
    /\ tasks = <<>>
    /\ call = NoCall
    /\ response = NoResponse
    /\ earlier = None
    /\ session_state = InitialSessionState

\* one call of QueryProcessor.process_query; the call record keeps the
\* question, the branch taken and what the language model did
ProcessQuery ==
    /\ call = NoCall
    /\ \E query \in Queries :
        \E llm \in LLMOutcomes :
            /\ call' = [op |-> "process_query", query |-> query,
                        selected |-> selected(query, Now), llm |-> llm]
            /\ response' = Returned(llm_process_query(query, Now, llm))
    /\ UNCHANGED <<tasks, earlier, session_state>>

ResolverNext ==
    \/ ProcessQuery
    \/ TakeOutcome

ResolverSpec == ResolverInit /\ [][ResolverNext]_vars
-----------------------------------------------------------------------------
(* The intent resolver (ResolverSpec) *)

\* the holiday, weekend and date-pattern tests on the lower-cased question
\* of the call
AsksAboutHoliday == is_holiday_query(preprocess_query(call.query))

AsksAboutWeekend == is_weekend_query(preprocess_query(call.query))

MentionsDate == is_specific_date_query(preprocess_query(call.query))

\* C24: process_query selects the intent by fixed precedence: holiday_impact
\* if the lower-cased question contains a holiday keyword, else
\* weekend_impact if it contains a weekend keyword, else specific_date if it
\* matches a date pattern, else general; a date is extracted only on the
\* specific_date branch, so a question with a holiday keyword and a date
\* gets holiday_impact and no date.  When the language model call fails,
\* the returned response carries exactly the selected intent and date.
C24_FixedPrecedence ==
    call.op = "process_query" =>
        /\ call.selected.analysis_type =
              IF AsksAboutHoliday THEN "holiday_impact"
              ELSE IF AsksAboutWeekend THEN "weekend_impact"
              ELSE IF MentionsDate THEN "specific_date"
              ELSE "general_query"
        /\ call.selected.helper =
              IF AsksAboutHoliday THEN "_get_task_analysis_response"
              ELSE IF AsksAboutWeekend THEN "_get_schedule_impact_response"
              ELSE IF MentionsDate THEN "_get_task_analysis_response"
              ELSE "_get_general_query_response"
        /\ call.selected.specific_date # None =>
              call.selected.analysis_type = "specific_date"
        /\ (AsksAboutHoliday /\ MentionsDate) =>
              /\ call.selected.analysis_type = "holiday_impact"
              /\ call.selected.specific_date = None
        /\ call.llm.raised =>
              /\ response.value.analysis_type = call.selected.analysis_type
              /\ response.value.specific_date = call.selected.specific_date

\* C24 witness: the question "Holiday 7/3", which has a holiday keyword and
\* a date, has been resolved to holiday_impact without a date, and the
\* language model call failed
C24_Witness ==
    /\ call.op = "process_query"
    /\ call.query = join(<<<<"H", "o", "l", "i", "d", "a", "y">>, <<"7", "/", "3">>>>)
    /\ AsksAboutHoliday
    /\ MentionsDate
    /\ call.llm.raised
    /\ response.value.analysis_type = "holiday_impact"
    /\ response.value.specific_date = None
-----------------------------------------------------------------------------
(* frontend/app.py *)

\* A chat entry has a role and a content: the question for the role user,
\* the response of process_query for the role assistant.
Entry(role, content) == [role |-> role, content |-> content]

\* the dict process_query returns; of a DataFrame the model keeps the Task
\* ID column, of a figure its kind
ResponseDict(text, follow_up, data, chart) ==
    [text |-> text, follow_up |-> follow_up, data |-> data, chart |-> chart]

format_task_impact_response(llm_response, analysis) ==
    IF Len(analysis) > 0
    THEN ResponseDict(IF "impact_summary" \in DOMAIN llm_response
                      THEN llm_response.impact_summary
                      ELSE <<"Found ", ToString(Len(analysis)), " impacted tasks.">>,
                      llm_response.follow_up_questions,
                      Some([i \in DOMAIN analysis |-> analysis[i].task.id]),
                      Some("timeline"))
    ELSE ResponseDict(<<"No tasks found matching your query.">>,
                      llm_response.follow_up_questions, None, None)

format_schedule_impact_response(llm_response, analysis) ==
    IF Len(analysis.impacted_tasks) > 0
    THEN ResponseDict(IF "impact_summary" \in DOMAIN llm_response
                      THEN llm_response.impact_summary
                      ELSE analysis.analysis_summary,
                      llm_response.follow_up_questions,
                      Some([i \in DOMAIN analysis.impacted_tasks |->
                               analysis.impacted_tasks[i].task.id]),
                      Some("bar"))
    ELSE ResponseDict(<<"No schedule impact found for your query.">>,
                      llm_response.follow_up_questions, None, None)

\* the analysis process_query runs for a response of the query processor:
\* None when it runs none, else the outcome of the analysis
analysis_for(llm_response, task_list) ==
    CASE /\ llm_response.response_type = "task_analysis"
         /\ llm_response.analysis_type = "holiday_impact" ->
            Some(find_holiday_tasks(task_list))
      [] /\ llm_response.response_type = "task_analysis"
         /\ llm_response.analysis_type = "specific_date"
         /\ llm_response.specific_date # None ->
            Some(find_tasks_impacted_by_date(task_list, llm_response.specific_date[1]))
      [] /\ llm_response.response_type = "schedule_impact"
         /\ llm_response.analysis_type = "weekend_impact" ->
            Some(calculate_weekend_impact(task_list))
      [] OTHER -> None

\* what process_query returns, given the response of the query processor
\* and the analysis it has run: without an analysis the answer or the
\* understanding of the language model, after an exception its text, else
\* the formatted analysis
response_for(llm_response, analysis) ==
    IF analysis = None
    THEN ResponseDict(IF "answer" \in DOMAIN llm_response
                      THEN llm_response.answer
                      ELSE llm_response.query_understanding,
                      llm_response.follow_up_questions, None, None)
    ELSE IF analysis[1].raised
    THEN ResponseDict(<<"Error processing your query: ", analysis[1].value>>,
                      <<>>, None, None)
    ELSE IF llm_response.response_type = "task_analysis"
    THEN format_task_impact_response(llm_response, analysis[1].value)
    ELSE format_schedule_impact_response(llm_response, analysis[1].value)

\* the body of process_query after the call of the query processor
analyze_and_format(llm_response, task_list) ==
    the({response_for(llm_response, analysis) :
            analysis \in {analysis_for(llm_response, task_list)}})

\* process_query of app.py
process_query(query, task_list, now, llm) ==
    the({analyze_and_format(llm_response, task_list) :
            llm_response \in {llm_process_query(query, now, llm)}})

\* the task list after the question box has been passed:
\* calculate_weekend_impact, when it is called, is handed the session's list
tasks_after_query(query, task_list, now, llm) ==
    IF /\ query # <<>>
       /\ \E llm_response \in {llm_process_query(query, now, llm)} :
              /\ llm_response.response_type = "schedule_impact"
              /\ llm_response.analysis_type = "weekend_impact"
    THEN task_list_after_weekend_impact(task_list)
    ELSE task_list

\* DataLoader(file_path) after load_data and process_data
DataLoader(raw_data, task_list) ==
    [file_path |-> "temp_project_data.xlsx", raw_data |-> raw_data,
     tasks |-> task_list]

\* what load_data leaves: the session state, the session's tasks and the
\* returned pair
Loaded(state, task_list, success, message) ==
    [session_state |-> state, tasks |-> task_list,
     returned |-> [success |-> success, message |-> message]]

\* a variant that records the outcome of the read also when it failed
load_data_recording_failure(raw_data, state, task_list, clock) ==
    IF raw_data # None
    THEN the({Loaded([state EXCEPT !.data_loaded = TRUE,
                                   !.data_loader = Some(DataLoader(done.raw_data,
                                                                   done.tasks))],
                     done.returned, TRUE,
                     <<"Successfully loaded ", ToString(Len(done.returned)), " tasks">>) :
                 done \in {process_data(raw_data, <<>>, clock)}})
    ELSE Loaded([state EXCEPT !.data_loaded = FALSE, !.data_loader = None],
                <<>>, FALSE, <<"Failed to load data">>)

\* load_data of app.py.  raw_data is what pd.read_excel makes of the file at
\* file_path: None when it raises, and DataLoader.load_data returns False
\* then.  DataLoader.load_data and process_data catch every Exception
\* themselves, so that the except branch of load_data is not taken.  The
\* DataLoader is a new one, whose tasks are []; the one the session keeps
\* holds the sheet as process_data has left it.  A sheet that was read
\* counts as loaded also when process_data has made no task of it (a
\* required column is missing, or the pass over the rows has raised).
\* clock holds the times at the calls of _parse_date.
load_data(raw_data, state, task_list, clock) ==
    IF raw_data # None
    THEN the({Loaded([state EXCEPT !.data_loaded = TRUE,
                                   !.data_loader = Some(DataLoader(done.raw_data,
                                                                   done.tasks))],
                     done.returned, TRUE,
                     <<"Successfully loaded ", ToString(Len(done.returned)), " tasks">>) :
                 done \in {process_data(raw_data, <<>>, clock)}})
    ELSE Loaded(state, task_list, FALSE, <<"Failed to load data">>)

\* st.session_state.chat_history.append({"role": "user", "content": query})
\* (lines 238 and 269)
append_user_entry(chat_history, query) ==
    Append(chat_history, Entry("user", query))

\* st.session_state.chat_history.append({"role": "assistant", "content":
\* response}) (lines 244 and 275)
append_assistant_entry(chat_history, response_dict) ==
    Append(chat_history, Entry("assistant", response_dict))

-----------------------------------------------------------------------------
(* UISpec: a session of the Streamlit application.  Streamlit runs the     *)
(* script main() from the top when the session opens, on every event of a  *)
(* widget (the file in the uploader changes, a button is clicked, the text *)
(* of the question box changes) and after st.rerun().  The widgets keep    *)
(* their values from run to run; a button is True only in the run its      *)
(* click has caused.  An event that arrives while the script runs stops it *)
(* at its next st.* call or access of st.session_state (the exception that *)
(* stops it is no Exception, so that no except clause of the script        *)
(* catches it), and the run the event causes starts from the top with the  *)
(* values the widgets have then.  A run is therefore a sequence of steps,  *)
(* each the code between two such points that changes the state: the       *)
(* sidebar (lines 198-224) with the three assignments of load_data (48,    *)
(* 49, 50), the question box (227-238), process_query (241), the append of *)
(* its response (244), and the conversation (247-269) with process_query   *)
(* (272) and the append of its response and st.rerun() (275-278); an event *)
(* may come before any of them.  When a run has ended, no call is in       *)
(* progress.                                                               *)

\* longest chat history, in entries
MaxChatHistory == 4

\* the files the user uploads, each as what pd.read_excel makes of it: one
\* it raises on; a sheet with a task on Thursday 2026-07-02, an empty row
\* and a task from that Thursday to Saturday noon; a sheet without the
\* column Successors, of which process_data makes no task; and a sheet with
\* a row that has no Start and a Finish with a time zone, on which the pass
\* of process_data reads the clock and raises
UploadedFiles ==
    {None,
     Some(DataFrame(Range(required_columns),
                    <<PlainRow, EmptyRow,
                      [PlainRow EXCEPT !["Index"] = Number(2),
                                       !["Finish"] = Timestamp(Naive(2 * HoursPerDay + 12))]>>)),
     Some(without(DataFrame(Range(required_columns), <<PlainRow>>), "Successors")),
     Some(DataFrame(Range(required_columns),
                    <<[PlainRow EXCEPT !["Start"] = NaN,
                                       !["Finish"] = Str(<<"2", "0", "2", "6", "-", "0", "7", "-", "0", "3", "T", "1", "0", ":", "0", "0", "Z">>)]>>))}

\* the question the user types, about a date with a time of day in UTC;
\* the follow-up questions of the responses are the other questions of a
\* session
TypedQueries ==
    {<<"C", "h", "r", "i", "s", "t", "m", "a", "s", " ", "1", "0", ":", "0", "0", "Z">>}

\* the times at the calls of _parse_date of a load in the session: the
\* clock does not move during the pass, or it moves on after the first call
SessionClocks ==
    {clock \in Clocks : \A k \in 2 .. (2 * MaxRows) :
                           clock[k] = clock[2] /\ le(clock[1], clock[2])}

\* what the language model does in a session: the call raises, or it
\* answers with a follow-up question
SessionLLMOutcomes ==
    {Raised([error |-> "APIError"]),
     Returned([analysis_type |-> "holiday_impact", specific_date |-> None,
               follow_up_questions |-> <<FollowUpQuestion>>])}

\* A run of main() from the top: trigger is what has caused it ("open": the
\* session opens, the label of the widget, "st.rerun"), follow_up the index
\* of the chat entry and of the question of the follow-up button clicked,
\* pc the step the run is at; query is the question the run has appended
\* last and llm the outcome of the language model call of the process_query
\* the run has called for it; locals is what load_data has computed (its
\* variables tasks and data_loader, and what it will return) while its
\* assignments are under way.
Run(trigger, follow_up) ==
    [op |-> "main", trigger |-> trigger, follow_up |-> follow_up,
     pc |-> "sidebar", query |-> <<>>, llm |-> None, locals |-> None]

\* the session opens: main() runs, init_session_state has set the keys.  In
\* a session of the application, earlier is the question entered in the
\* question box for as long as it has not been appended to the chat
\* history.
UIInit ==
    /\ tasks = <<>>
    /\ call = Run("open", None)
    /\ response = NoResponse
    /\ earlier = None
    /\ session_state = InitialSessionState

\* The user puts a file in the uploader, another one, or removes it
\* (st.file_uploader, line 200): a run without a click.
UploadFile ==
    /\ \E uploaded_file \in ({None} \cup {Some(file) : file \in UploadedFiles})
                            \ {session_state.uploaded_file} :
           session_state' = [session_state EXCEPT !.uploaded_file = uploaded_file]
    /\ call' = Run("file_uploader", None)
    /\ response' = NoResponse
    /\ UNCHANGED <<tasks, earlier>>

\* The user clicks "Load Data" (line 207), which is on the page.
ClickLoadData ==
    /\ session_state.page.load_data_button
    /\ call' = Run("Load Data", None)
    /\ response' = NoResponse
    /\ UNCHANGED <<tasks, earlier, session_state>>

\* The user enters a text in the question box (line 234), which is on the
\* page, or clears it.  The question entered awaits its place in the chat
\* history.
EnterQuery ==
    /\ session_state.page.question_box
    /\ \E query \in (TypedQueries \cup {<<>>}) \ {session_state.query} :
        /\ session_state' = [session_state EXCEPT !.query = query]
        /\ earlier' = IF query # <<>> THEN Some(query) ELSE None
    /\ call' = Run("text_input", None)
    /\ response' = NoResponse
    /\ UNCHANGED tasks

\* The user clicks the button of follow-up question i of chat entry idx
\* (line 267, key follow_up_{idx}_{i}), which is on the page.
ClickFollowUp ==
    /\ \E idx \in 1 .. session_state.page.follow_up_buttons :
        /\ session_state.chat_history[idx].role = "assistant"
        /\ \E i \in DOMAIN session_state.chat_history[idx].content.follow_up :
               call' = Run("follow_up", Some(<<idx, i>>))
    /\ response' = NoResponse
    /\ UNCHANGED <<tasks, earlier, session_state>>

\* what load_data does in the run a click of "Load Data" has caused, on the
\* file in the uploader, with the times clock at the calls of _parse_date
LoadedInRun(clock) ==
    load_data(session_state.uploaded_file[1], session_state, tasks, clock)

\* main, lines 198-224, the sidebar: with a file in the uploader the button
\* "Load Data" is on the page, and load_data is called in the run its click
\* has caused.  When the read has failed, load_data returns; else it calls
\* process_data (line 47) and makes the first of its assignments,
\* st.session_state.data_loaded = True (line 48).  The statistics (lines
\* 215-224) change nothing.
MainSidebar ==
    /\ call.op = "main"
    /\ call.pc = "sidebar"
    /\ IF session_state.uploaded_file # None /\ call.trigger = "Load Data"
       THEN \E clock \in SessionClocks : \E loaded \in {LoadedInRun(clock)} :
            IF loaded.returned.success
            THEN /\ call' = [call EXCEPT !.pc = "load_data_tasks",
                                         !.query = <<>>, !.llm = None,
                                         !.locals = Some(loaded)]
                 /\ session_state' =
                        [session_state EXCEPT
                            !.data_loaded = loaded.session_state.data_loaded,
                            !.page.load_data_button = TRUE]
                 /\ UNCHANGED <<tasks, response>>
            ELSE /\ call' = [call EXCEPT !.pc = "question",
                                         !.query = <<>>, !.llm = None]
                 /\ session_state' = [loaded.session_state EXCEPT
                                         !.page.load_data_button = TRUE]
                 /\ tasks' = loaded.tasks
                 /\ response' = Returned(loaded.returned)
       ELSE /\ call' = [call EXCEPT !.pc = "question", !.query = <<>>, !.llm = None]
            /\ session_state' =
                   [session_state EXCEPT !.page.load_data_button =
                                            (session_state.uploaded_file # None)]
            /\ UNCHANGED <<tasks, response>>
    /\ UNCHANGED earlier

\* load_data, line 49: st.session_state.tasks = tasks
LoadDataTasks ==
    /\ call.op = "main"
    /\ call.pc = "load_data_tasks"
    /\ call' = [call EXCEPT !.pc = "load_data_loader"]
    /\ tasks' = call.locals[1].tasks
    /\ UNCHANGED <<response, earlier, session_state>>

\* load_data, lines 50-51: st.session_state.data_loader = data_loader, and
\* the return
LoadDataLoader ==
    /\ call.op = "main"
    /\ call.pc = "load_data_loader"
    /\ call' = [call EXCEPT !.pc = "question", !.locals = None]
    /\ session_state' =
           [session_state EXCEPT
               !.data_loader = call.locals[1].session_state.data_loader]
    /\ response' = Returned(call.locals[1].returned)
    /\ UNCHANGED <<tasks, earlier>>

\* main, lines 227-238: without data the run ends with st.info; else the
\* question box is on the page, and the text it holds, if any, is appended
\* to the chat history.
MainQuestionBox ==
    /\ call.op = "main"
    /\ call.pc = "question"
    /\ IF ~session_state.data_loaded
       THEN /\ call' = NoCall
            /\ response' = NoResponse
            /\ UNCHANGED <<tasks, earlier, session_state>>
       ELSE IF session_state.query = <<>>
       THEN /\ call' = [call EXCEPT !.pc = "conversation"]
            /\ session_state' = [session_state EXCEPT !.page.question_box = TRUE]
            /\ UNCHANGED <<tasks, response, earlier>>
       ELSE /\ Len(session_state.chat_history) + 2 <= MaxChatHistory
            /\ call' = [call EXCEPT !.pc = "process_query",
                                    !.query = session_state.query]
            /\ session_state' =
                   [session_state EXCEPT
                       !.page.question_box = TRUE,
                       !.chat_history = append_user_entry(session_state.chat_history,
                                                          session_state.query)]
            /\ earlier' = None
            /\ UNCHANGED <<tasks, response>>

\* main, lines 241 and 272: process_query on the question appended last.
\* The call waits for the language model.
MainProcessQuery ==
    /\ call.op = "main"
    /\ call.pc \in {"process_query", "follow_up_process_query"}
    /\ \E llm \in SessionLLMOutcomes :
        /\ call' = [call EXCEPT !.pc = IF call.pc = "process_query"
                                       THEN "append_response"
                                       ELSE "follow_up_append_response",
                                !.llm = Some(llm)]
        /\ tasks' = tasks_after_query(call.query, tasks, Now, llm)
        /\ response' = Returned(process_query(call.query, tasks, Now, llm))
    /\ UNCHANGED <<earlier, session_state>>

\* main, lines 244 and 275-278: the response is appended to the chat
\* history; after that of a follow-up question st.rerun() starts the script
\* anew.
MainAppendResponse ==
    /\ call.op = "main"
    /\ call.pc \in {"append_response", "follow_up_append_response"}
    /\ call' = IF call.pc = "append_response"
               THEN [call EXCEPT !.pc = "conversation"]
               ELSE [Run("st.rerun", None) EXCEPT !.query = call.query,
                                                  !.llm = call.llm]
    /\ session_state' =
           [session_state EXCEPT
               !.chat_history = append_assistant_entry(session_state.chat_history,
                                                       response.value)]
    /\ UNCHANGED <<tasks, response, earlier>>

\* main, lines 247-269: the chat history is put on the page with the
\* buttons of its follow-up questions.  In the run the click of such a
\* button has caused, the loop reaches the button and the question is
\* appended.  (An event that stops the script inside the loop is taken as
\* stopping it before.)
MainConversation ==
    /\ call.op = "main"
    /\ call.pc = "conversation"
    /\ IF call.trigger = "follow_up"
       THEN LET question ==
                    session_state.chat_history[call.follow_up[1][1]]
                        .content.follow_up[call.follow_up[1][2]]
            IN  /\ Len(session_state.chat_history) + 2 <= MaxChatHistory
                /\ call' = [call EXCEPT !.pc = "follow_up_process_query",
                                        !.query = question, !.llm = None]
                /\ session_state' =
                       [session_state EXCEPT
                           !.chat_history = append_user_entry(session_state.chat_history,
                                                              question)]
                /\ UNCHANGED <<tasks, response>>
       ELSE /\ call' = NoCall
            /\ response' = NoResponse
            /\ session_state' =
                   [session_state EXCEPT !.page.follow_up_buttons =
                                            Len(session_state.chat_history)]
            /\ UNCHANGED tasks
    /\ UNCHANGED earlier

UINext ==
    \/ UploadFile
    \/ ClickLoadData
    \/ EnterQuery
    \/ ClickFollowUp
    \/ MainSidebar
    \/ LoadDataTasks
    \/ LoadDataLoader
    \/ MainQuestionBox
    \/ MainProcessQuery
    \/ MainAppendResponse
    \/ MainConversation

UISpec == UIInit /\ [][UINext]_vars
-----------------------------------------------------------------------------
(* The session of the user interface (UISpec) *)

\* the keys of the session state a load assigns: tasks, data_loaded and
\* data_loader
LoadedKeys == <<tasks, session_state.data_loaded, session_state.data_loader>>

\* the step is a load attempt: the sidebar, or an assignment of load_data,
\* of the run a click of "Load Data" has caused, with a file in the uploader
LoadAttempt ==
    /\ call.op = "main"
    /\ call.pc \in {"sidebar", "load_data_tasks", "load_data_loader"}
    /\ call.trigger = "Load Data"
    /\ session_state.uploaded_file # None

\* C22: tasks, data_loaded and data_loader are changed only by a load
\* attempt whose file read succeeds: a load whose read fails leaves all
\* three as they are, so does every other step of a run (the question box,
\* a follow-up question) and every event of a widget, and data_loaded never
\* goes from true back to false.
C22_ChangedOnlyBySuccessfulLoad ==
    [][/\ LoadedKeys' # LoadedKeys =>
              (LoadAttempt /\ session_state.uploaded_file[1] # None)
       /\ (LoadAttempt /\ session_state.uploaded_file[1] = None) =>
              LoadedKeys' = LoadedKeys
       /\ session_state'.chat_history # session_state.chat_history =>
              LoadedKeys' = LoadedKeys
       /\ session_state.data_loaded => session_state'.data_loaded]_vars

\* C22 witness: after a sheet was loaded and a question was answered, a
\* load attempt whose read failed has left the two tasks, data_loaded and
\* the DataLoader in place
C22_Witness ==
    /\ call.op = "main"
    /\ call.trigger = "Load Data"
    /\ call.pc = "question"
    /\ session_state.uploaded_file = Some(None)
    /\ ~response.value.success
    /\ session_state.data_loaded
    /\ Len(tasks) = 2
    /\ session_state.data_loader # None
    /\ Len(session_state.data_loader[1].raw_data[1].rows) = 2
    /\ Len(session_state.chat_history) >= 2

\* the submitted question the step of the run is to append: at the
\* question box the text entered that has not been appended yet, at the
\* conversation the follow-up question whose button was clicked
Submitted ==
    IF call.pc = "question"
    THEN earlier
    ELSE IF call.pc = "conversation" /\ call.trigger = "follow_up"
    THEN Some(session_state.chat_history[call.follow_up[1][1]]
                  .content.follow_up[call.follow_up[1][2]])
    ELSE None

\* processing the question of the run has failed: the analysis raised
ProcessingFailed ==
    LET analysis == analysis_for(llm_process_query(call.query, Now, call.llm[1]),
                                 tasks)
    IN  analysis # None /\ analysis[1].raised

\* a response made of a failure: an error text, no follow-up questions, no
\* data and no chart
ErrorResponse(response_dict) ==
    /\ response_dict.text[1] = "Error processing your query: "
    /\ response_dict.follow_up = <<>>
    /\ response_dict.data = None
    /\ response_dict.chart = None

\* the run has called process_query
QueryProcessed == call.op = "main" /\ call.llm # None

\* the chat history strictly alternates user, assistant and has even length
Alternates(chat_history) ==
    /\ Len(chat_history) % 2 = 0
    /\ \A k \in DOMAIN chat_history :
           chat_history[k].role = IF k % 2 = 1 THEN "user" ELSE "assistant"

\* the step appends one entry to the chat history and leaves the entries
\* it has as they are
AppendsOneEntry ==
    /\ Len(session_state'.chat_history) = Len(session_state.chat_history) + 1
    /\ \A k \in DOMAIN session_state.chat_history :
           session_state'.chat_history[k] = session_state.chat_history[k]

\* the last entry of the chat history, None when it is empty
LastEntry(chat_history) ==
    IF chat_history = <<>> THEN None ELSE Some(chat_history[Len(chat_history)])

\* C23: every question submitted in the session, typed or chosen as a
\* follow-up, appends exactly one user entry immediately followed by exactly
\* one assistant entry to the chat history, also when processing it fails
\* (the failure becomes an assistant entry with an error text and no data or
\* chart); so the history has even length and alternates user, assistant.
\* Stated on the steps that change the history: each appends one entry,
\* either a submitted question that has not been appended yet, after a
\* response or as the first entry, or, after a question, the response of
\* process_query to it; and when no run is in progress every question has
\* its response.  Fails: every run that passes the question box while it
\* holds a text appends that text again, and a run that an event stops
\* while process_query waits for the language model leaves a question
\* without a response.
C23_EveryQueryAppendsOnePair ==
    /\ [][session_state'.chat_history # session_state.chat_history =>
            LET before == LastEntry(session_state.chat_history)
                after  == LastEntry(session_state'.chat_history)[1]
            IN  /\ AppendsOneEntry
                /\ \/ /\ after.role = "user"
                      /\ Submitted = Some(after.content)
                      /\ before # None => before[1].role = "assistant"
                   \/ /\ after.role = "assistant"
                      /\ before # None
                      /\ before[1] = Entry("user", call.query)
                      /\ after.content = response.value]_vars
    /\ []((QueryProcessed /\ ProcessingFailed) => ErrorResponse(response.value))
    /\ [](call = NoCall => Alternates(session_state.chat_history))

\* what holds of the chat history: a step appends at most one entry to it,
\* a user entry or, directly after the user entry of a question, the
\* response of process_query to that question; and a failure of the
\* processing becomes an error response
ChatHistoryGrowsByEntries ==
    /\ [][session_state'.chat_history # session_state.chat_history =>
            /\ AppendsOneEntry
            /\ LastEntry(session_state'.chat_history)[1].role = "assistant" =>
                   /\ LastEntry(session_state.chat_history) =
                          Some(Entry("user", call.query))
                   /\ LastEntry(session_state'.chat_history)[1].content =
                          response.value]_vars
    /\ []((QueryProcessed /\ ProcessingFailed) => ErrorResponse(response.value))
=============================================================================
